---- MODULE Spec2Model ----
(***************************************************************************)
(* Model of the Myndra front end and evaluator: Lexer (lexer.cpp), Parser  *)
(* (parser.cpp), Interpreter (interpreter.h) and Compiler::compile_string. *)
(*                                                                         *)
(* Text is a sequence of one-character strings.  Four specifications:      *)
(*   SpecLex    - Lexer::tokenize, one next_token call per step            *)
(*   SpecParse  - one compile_string call on sources built from words      *)
(*   SpecEval   - one compile_string call on one short program             *)
(*   Spec       - compile_string calls on one Compiler instance            *)
(***************************************************************************)
EXTENDS Integers, Sequences, FiniteSets, TLC

VARIABLES
  source_,      \* Lexer::source_ / Compiler::Impl::current_source
  lexer,        \* the Lexer: current_, line_, column_, errors_
  tokens,       \* the tokens produced so far by tokenize
  lexStatus,    \* "loop" in tokenize's loop, "returned", or "threw"
  parser,       \* the Parser of the last compile_string: current_, errors_
  ast,          \* Compiler::Impl::ast
  interpreter,  \* Compiler::Impl::interpreter
  errors,       \* Compiler::Impl::errors
  result,       \* how the last call ended: "true", "false", "threw", "hang",
                \* "crash"; "none" before the first call
  calls         \* number of calls made on the instance

lexVars == <<source_, lexer, tokens, lexStatus>>

compilerVars == <<parser, ast, interpreter, errors, result, calls>>

vars == <<source_, lexer, tokens, lexStatus, parser, ast, interpreter, errors,
          result, calls>>

(***************************************************************************)
(* Bounds of the model.                                                    *)
(***************************************************************************)
MaxLen == 4

(***************************************************************************)
(* Characters.                                                             *)
(***************************************************************************)
NUL == "NUL"
NL == "\n"
QUOTE == "\""
BSLASH == "\\"

Digits == {"0", "1", "2", "3", "4", "5", "6", "7", "8", "9"}

Letters ==
  {"a", "b", "c", "d", "e", "f", "g", "h", "i", "j", "k", "l", "m", "n", "o",
   "p", "q", "r", "s", "t", "u", "v", "w", "x", "y", "z",
   "A", "B", "C", "D", "E", "F", "G", "H", "I", "J", "K", "L", "M", "N", "O",
   "P", "Q", "R", "S", "T", "U", "V", "W", "X", "Y", "Z"}

is_alpha(c) == c \in Letters \/ c = "_"

is_digit(c) == c \in Digits

is_alnum(c) == c \in Letters \/ c \in Digits \/ c = "_"

keywords_ ==
  {    [text |-> <<"l","e","t">>, type |-> "LET"],
       [text |-> <<"f","n">>, type |-> "FN"],
       [text |-> <<"i","f">>, type |-> "IF"],
       [text |-> <<"e","l","s","e">>, type |-> "ELSE"],
       [text |-> <<"w","h","i","l","e">>, type |-> "WHILE"],
       [text |-> <<"f","o","r">>, type |-> "FOR"],
       [text |-> <<"r","e","t","u","r","n">>, type |-> "RETURN"],
       [text |-> <<"i","m","p","o","r","t">>, type |-> "IMPORT"],
       [text |-> <<"e","x","p","o","r","t">>, type |-> "EXPORT"],
       [text |-> <<"w","i","t","h">>, type |-> "WITH"],
       [text |-> <<"c","a","p","a","b","i","l","i","t","i","e","s">>, type |-> "CAPABILITIES"],
       [text |-> <<"c","a","p","s","u","l","e">>, type |-> "CAPSULE"],
       [text |-> <<"d","s","l">>, type |-> "DSL"],
       [text |-> <<"f","a","l","l","b","a","c","k">>, type |-> "FALLBACK"],
       [text |-> <<"r","e","t","r","y">>, type |-> "RETRY"],
       [text |-> <<"c","o","n","t","e","x","t">>, type |-> "CONTEXT"],
       [text |-> <<"o","v","e","r">>, type |-> "OVER"],
       [text |-> <<"t","a","g">>, type |-> "TAG"],
       [text |-> <<"d","i","d">>, type |-> "DID"],
       [text |-> <<"e","v","o","l","v","i","n","g">>, type |-> "EVOLVING"],
       [text |-> <<"t","r","u","e">>, type |-> "BOOLEAN"],
       [text |-> <<"f","a","l","s","e">>, type |-> "BOOLEAN"],
       [text |-> <<"n","i","l">>, type |-> "NIL"],
       [text |-> <<"a","n","d">>, type |-> "AND"],
       [text |-> <<"o","r">>, type |-> "OR"],
       [text |-> <<"n","o","t">>, type |-> "NOT"],
       [text |-> <<"o","b","s","e","r","v","a","b","l","e">>, type |-> "OBSERVABLE"],
       [text |-> <<"s","u","b","s","c","r","i","b","e">>, type |-> "SUBSCRIBE"],
       [text |-> <<"e","m","i","t">>, type |-> "EMIT"],
       [text |-> <<"t","r","a","n","s","i","t","i","o","n">>, type |-> "TRANSITION"],
       [text |-> <<"t","i","m","e","l","i","n","e">>, type |-> "TIMELINE"],
       [text |-> <<"v","e","r","i","f","y">>, type |-> "VERIFY"],
       [text |-> <<"p","r","o","o","f">>, type |-> "PROOF"],
       [text |-> <<"h","a","s","_","p","r","o","o","f">>, type |-> "HAS_PROOF"] }

annotations_ ==
  {    [text |-> <<"@","s","y","n","c">>, type |-> "AT_SYNC"],
       [text |-> <<"@","a","s","y","n","c">>, type |-> "AT_ASYNC"],
       [text |-> <<"@","p","a","r","a","l","l","e","l">>, type |-> "AT_PARALLEL"],
       [text |-> <<"@","r","e","a","c","t","i","v","e">>, type |-> "AT_REACTIVE"],
       [text |-> <<"@","t","e","m","p","o","r","a","l">>, type |-> "AT_TEMPORAL"] }

(***************************************************************************)
(* Token literals: std::variant<int64_t, double, std::string, bool>.  An   *)
(* int64 is kept as its decimal digits without leading zeros, a double as  *)
(* its integer digits and its fraction digits.                             *)
(***************************************************************************)
IntLit(ds) == [k |-> "int", digits |-> ds]

FloatLit(ip, fp) == [k |-> "float", ipart |-> ip, fpart |-> fp]

StrLit(s) == [k |-> "str", str |-> s]

BoolLit(b) == [k |-> "bool", bool |-> b]

\* The value-initialised variant of the four-argument Token constructor.
DefaultLiteral == IntLit(<<"0">>)

Token(t, lex, lit, ln, col) ==
  [type |-> t, lexeme |-> lex, literal |-> lit, line |-> ln, column |-> col]

(***************************************************************************)
(* std::stoll / std::stod / std::to_string on digit sequences.             *)
(***************************************************************************)
RECURSIVE StripZeros(_)
StripZeros(ds) ==
  IF Len(ds) > 1 /\ ds[1] = "0" THEN StripZeros(Tail(ds)) ELSE ds

DigitVal(c) ==
  CASE c = "0" -> 0 [] c = "1" -> 1 [] c = "2" -> 2 [] c = "3" -> 3
    [] c = "4" -> 4 [] c = "5" -> 5 [] c = "6" -> 6 [] c = "7" -> 7
    [] c = "8" -> 8 [] c = "9" -> 9

\* The digits of INT64_MAX, 9223372036854775807.
Int64MaxDigits ==
  <<"9","2","2","3","3","7","2","0","3","6","8","5","4","7","7","5","8","0","7">>

RECURSIVE DigitsGreater(_, _)
\* a > b for two digit sequences of the same length.
DigitsGreater(a, b) ==
  IF a = <<>> THEN FALSE
  ELSE IF DigitVal(a[1]) # DigitVal(b[1]) THEN DigitVal(a[1]) > DigitVal(b[1])
  ELSE DigitsGreater(Tail(a), Tail(b))

\* std::stoll throws std::out_of_range when the value exceeds INT64_MAX.
StollThrows(ds) ==
  LET sig == StripZeros(ds) IN
    \/ Len(sig) > Len(Int64MaxDigits)
    \/ Len(sig) = Len(Int64MaxDigits) /\ DigitsGreater(sig, Int64MaxDigits)

\* std::to_string(int64_t) of the value std::stoll read from ds.
ToStringInt(ds) == StripZeros(ds)

\* std::to_string(double) prints "%f": six fraction digits.
ToStringDouble(ip, fp) ==
  StripZeros(ip) \o <<".">> \o
  [i \in 1..6 |-> IF i <= Len(fp) THEN fp[i] ELSE "0"]

(***************************************************************************)
(* Lexer state: current_, line_, column_, errors_ (source_ is fixed).      *)
(***************************************************************************)
LexerInit == [current |-> 0, line |-> 1, column |-> 1, errors |-> <<>>]

is_at_end(src, s) == s.current >= Len(src)

peek(src, s) == IF is_at_end(src, s) THEN NUL ELSE src[s.current + 1]

peek_next(src, s) ==
  IF s.current + 1 >= Len(src) THEN NUL ELSE src[s.current + 2]

\* advance(): the state after it; the character it returns is peek before it.
advance(src, s) ==
  IF is_at_end(src, s) THEN s
  ELSE [s EXCEPT !.column = @ + 1, !.current = @ + 1]

matches(src, s, expected) ==
  ~is_at_end(src, s) /\ src[s.current + 1] = expected

\* match(expected): the state after it (unchanged when it returns false).
match(src, s, expected) ==
  IF matches(src, s, expected)
  THEN [s EXCEPT !.current = @ + 1, !.column = @ + 1]
  ELSE s

RECURSIVE skip_whitespace(_, _)
skip_whitespace(src, s) ==
  IF ~is_at_end(src, s) /\ peek(src, s) \in {" ", "\r", "\t"}
  THEN skip_whitespace(src, advance(src, s))
  ELSE s

RECURSIVE skip_line_comment(_, _)
skip_line_comment(src, s) ==
  IF peek(src, s) # NL /\ ~is_at_end(src, s)
  THEN skip_line_comment(src, advance(src, s))
  ELSE s

RECURSIVE skip_block_comment(_, _)
skip_block_comment(src, s) ==
  IF is_at_end(src, s) THEN s
  ELSE IF peek(src, s) = "*" /\ peek_next(src, s) = "/"
  THEN advance(src, advance(src, s))
  ELSE LET s1 == IF peek(src, s) = NL
                 THEN [s EXCEPT !.line = @ + 1, !.column = 0]
                 ELSE s
       IN skip_block_comment(src, advance(src, s1))

\* "Line L, Column C: message"; the message is kept as one piece of text.
add_error(s, message) ==
  [s EXCEPT !.errors =
     Append(@, [line |-> s.line, column |-> s.column, message |-> message])]

\* The five make_token overloads and error_token.
make_token(s, type) == Token(type, <<>>, DefaultLiteral, s.line, s.column)

make_token_int(s, type, ds) ==
  Token(type, ToStringInt(ds), IntLit(StripZeros(ds)), s.line, s.column)

make_token_double(s, type, ip, fp) ==
  Token(type, ToStringDouble(ip, fp), FloatLit(StripZeros(ip), fp),
        s.line, s.column)

make_token_string(s, type, value) ==
  Token(type, value, StrLit(value), s.line, s.column)

make_token_bool(s, type, value) ==
  Token(type, IF value THEN <<"t","r","u","e">> ELSE <<"f","a","l","s","e">>,
        BoolLit(value), s.line, s.column)

error_token(s, message) ==
  Token("ERROR", <<message>>, DefaultLiteral, s.line, s.column)

\* What a scanning routine hands back: the token, the lexer after it, and
\* whether an exception left the routine instead.
Scan(tok, s) == [tok |-> tok, st |-> s, threw |-> FALSE]

ScanThrow(s) == [tok |-> make_token(s, "ERROR"), st |-> s, threw |-> TRUE]

(***************************************************************************)
(* Literal and word scanners.                                              *)
(***************************************************************************)
RECURSIVE string_chars(_, _, _)
\* Variant of the loop of string_literal that drops the character of an
\* unrecognized escape from the value.
string_chars_Dropping(src, s, value) ==
  IF peek(src, s) # QUOTE /\ ~is_at_end(src, s)
  THEN LET s1 == IF peek(src, s) = NL
                 THEN [s EXCEPT !.line = @ + 1, !.column = 0]
                 ELSE s
       IN IF peek(src, s1) = BSLASH
          THEN LET s2 == advance(src, s1)
                   escaped == peek(src, s2)
                   known == escaped \in {"n", "t", "r", BSLASH, QUOTE}
                   ch == CASE escaped = "n" -> "\n"
                           [] escaped = "t" -> "\t"
                           [] escaped = "r" -> "\r"
                           [] OTHER -> escaped
                   s3 == IF known THEN s2
                         ELSE add_error(s2, <<"Unknown escape sequence: \\", escaped>>)
               IN string_chars(src, advance(src, s3),
                               IF known THEN Append(value, ch) ELSE value)
          ELSE string_chars(src, advance(src, s1), Append(value, peek(src, s1)))
  ELSE [st |-> s, value |-> value]

\* The while loop of string_literal: the lexer and the value after it.
string_chars(src, s, value) ==
  IF peek(src, s) # QUOTE /\ ~is_at_end(src, s)
  THEN LET s1 == IF peek(src, s) = NL
                 THEN [s EXCEPT !.line = @ + 1, !.column = 0]
                 ELSE s
       IN IF peek(src, s1) = BSLASH
          THEN LET s2 == advance(src, s1)
                   escaped == peek(src, s2)
                   known == escaped \in {"n", "t", "r", BSLASH, QUOTE}
                   ch == CASE escaped = "n" -> "\n"
                           [] escaped = "t" -> "\t"
                           [] escaped = "r" -> "\r"
                           [] OTHER -> escaped
                   s3 == IF known THEN s2
                         ELSE add_error(s2, <<"Unknown escape sequence: \\", escaped>>)
               IN string_chars(src, advance(src, s3), Append(value, ch))
          ELSE string_chars(src, advance(src, s1), Append(value, peek(src, s1)))
  ELSE [st |-> s, value |-> value]

string_literal(src, s) ==
  LET r == string_chars(src, s, <<>>) IN
    IF is_at_end(src, r.st)
    THEN LET e == add_error(r.st, <<"Unterminated string">>)
         IN Scan(error_token(e, "Unterminated string"), e)
    ELSE LET s1 == advance(src, r.st)
         IN Scan(make_token_string(s1, "STRING", r.value), s1)

RECURSIVE skip_digits(_, _)
\* while (is_digit(peek())) advance();
skip_digits(src, s) ==
  IF is_digit(peek(src, s)) THEN skip_digits(src, advance(src, s)) ELSE s

\* std::stod throws std::out_of_range beyond DBL_MAX (about 1.8e308).
StodThrows(ip) == Len(StripZeros(ip)) > 309

\* Variant of number_literal that takes a `.` into the number whatever
\* follows it.
number_literal_AnyDot(src, s) ==
  LET start == s.current
      s1 == skip_digits(src, s)
      is_float == peek(src, s1) = "."
      s2 == IF is_float THEN skip_digits(src, advance(src, s1)) ELSE s1
      ip == SubSeq(src, start + 1, s1.current)
      fp == SubSeq(src, s1.current + 2, s2.current)
  IN IF is_float
     THEN IF StodThrows(ip) THEN ScanThrow(s2)
          ELSE Scan(make_token_double(s2, "FLOAT", ip, fp), s2)
     ELSE IF StollThrows(ip) THEN ScanThrow(s2)
          ELSE Scan(make_token_int(s2, "INTEGER", ip), s2)

number_literal(src, s) ==
  LET start == s.current
      s1 == skip_digits(src, s)
      is_float == peek(src, s1) = "." /\ is_digit(peek_next(src, s1))
      s2 == IF is_float THEN skip_digits(src, advance(src, s1)) ELSE s1
      ip == SubSeq(src, start + 1, s1.current)
      fp == SubSeq(src, s1.current + 2, s2.current)
  IN IF is_float
     THEN IF StodThrows(ip) THEN ScanThrow(s2)
          ELSE Scan(make_token_double(s2, "FLOAT", ip, fp), s2)
     ELSE IF StollThrows(ip) THEN ScanThrow(s2)
          ELSE Scan(make_token_int(s2, "INTEGER", ip), s2)

RECURSIVE skip_alnum(_, _)
\* while (is_alnum(peek()) || peek() == '_') advance();
\* Variant of the identifier loop that stops at a digit or an underscore.
skip_alnum_LettersOnly(src, s) ==
  IF peek(src, s) \in Letters
  THEN skip_alnum(src, advance(src, s))
  ELSE s

skip_alnum(src, s) ==
  IF is_alnum(peek(src, s)) \/ peek(src, s) = "_"
  THEN skip_alnum(src, advance(src, s))
  ELSE s

identifier_or_keyword(src, s) ==
  LET start == s.current
      s1 == skip_alnum(src, s)
      text == SubSeq(src, start + 1, s1.current)
      hit == {kw \in keywords_ : kw.text = text}
  IN IF hit # {}
     THEN LET type == (CHOOSE kw \in hit : TRUE).type
          IN IF type = "BOOLEAN"
             THEN Scan(make_token_bool(s1, type, text = <<"t","r","u","e">>), s1)
             ELSE Scan(make_token_string(s1, type, text), s1)
     ELSE Scan(make_token_string(s1, "IDENTIFIER", text), s1)

annotation(src, s) ==
  LET start == s.current - 1
      s1 == skip_alnum(src, s)
      text == SubSeq(src, start + 1, s1.current)
      hit == {an \in annotations_ : an.text = text}
  IN IF hit # {}
     THEN Scan(make_token(s1, (CHOOSE an \in hit : TRUE).type), s1)
     ELSE LET e == add_error(s1, <<"Unknown annotation: ", text>>)
          IN Scan(error_token(e, "Unknown annotation"), e)

RECURSIVE skip_tag_chars(_, _)
\* while (is_alnum(peek()) || peek() == '_' || peek() == ':') advance();
skip_tag_chars(src, s) ==
  IF is_alnum(peek(src, s)) \/ peek(src, s) = "_" \/ peek(src, s) = ":"
  THEN skip_tag_chars(src, advance(src, s))
  ELSE s

semantic_tag(src, s) ==
  LET s1 == skip_tag_chars(src, advance(src, s))
  IN Scan(make_token_string(s1, "TAG", <<>>), s1)

(***************************************************************************)
(* Lexer::next_token.                                                      *)
(***************************************************************************)
\* One- and two-character operators: the token for c, with the lookahead.
Punct(src, s, c) ==
  LET one(type) == Scan(make_token_string(s, type, <<c>>), s)
      two(d, type) ==
        Scan(make_token_string(match(src, s, d), type, <<c, d>>), match(src, s, d))
  IN CASE c = "(" -> one("LEFT_PAREN")
       [] c = ")" -> one("RIGHT_PAREN")
       [] c = "{" -> one("LEFT_BRACE")
       [] c = "}" -> one("RIGHT_BRACE")
       [] c = "[" -> one("LEFT_BRACKET")
       [] c = "]" -> one("RIGHT_BRACKET")
       [] c = "," -> one("COMMA")
       [] c = "." -> one("DOT")
       [] c = ";" -> one("SEMICOLON")
       [] c = "?" -> one("QUESTION")
       [] c = "+" -> IF matches(src, s, "=") THEN two("=", "PLUS_ASSIGN")
                     ELSE one("PLUS")
       [] c = "-" -> IF matches(src, s, "=") THEN two("=", "MINUS_ASSIGN")
                     ELSE IF matches(src, s, ">") THEN two(">", "ARROW")
                     ELSE one("MINUS")
       [] c = "*" -> one("MULTIPLY")
       [] c = "%" -> one("MODULO")
       [] c = "!" -> IF matches(src, s, "=") THEN two("=", "NOT_EQUAL")
                     ELSE one("NOT")
       [] c = "=" -> IF matches(src, s, "=") THEN two("=", "EQUAL")
                     ELSE IF matches(src, s, ">") THEN two(">", "FAT_ARROW")
                     ELSE one("ASSIGN")
       [] c = "<" -> IF matches(src, s, "=") THEN two("=", "LESS_EQUAL")
                     ELSE one("LESS")
       [] c = ">" -> IF matches(src, s, "=") THEN two("=", "GREATER_EQUAL")
                     ELSE one("GREATER")
       [] c = ":" -> IF matches(src, s, ":") THEN two(":", "DOUBLE_COLON")
                     ELSE one("COLON")

PunctChars ==
  {"(", ")", "{", "}", "[", "]", ",", ".", ";", "?", "+", "-", "*", "%", "!",
   "=", "<", ">", ":"}

next_token(src, s0) ==
  LET sw == skip_whitespace(src, s0) IN
    IF is_at_end(src, sw) THEN Scan(make_token_string(sw, "EOF_TOKEN", <<>>), sw)
    ELSE
      LET c == peek(src, sw)
          s == advance(src, sw)
      IN CASE c \in PunctChars -> Punct(src, s, c)
           [] c = "/" ->
                IF matches(src, s, "/")
                THEN LET s1 == skip_line_comment(src, match(src, s, "/"))
                     IN Scan(make_token_string(s1, "COMMENT", <<>>), s1)
                ELSE IF matches(src, s, "*")
                THEN LET s1 == skip_block_comment(src, match(src, s, "*"))
                     IN Scan(make_token_string(s1, "COMMENT", <<>>), s1)
                ELSE Scan(make_token_string(s, "DIVIDE", <<"/">>), s)
           [] c = "#" ->
                IF is_alpha(peek(src, s)) THEN semantic_tag(src, s)
                ELSE Scan(make_token_string(s, "HASH", <<"#">>), s)
           [] c = "@" -> annotation(src, s)
           [] c = NL ->
                LET s1 == [s EXCEPT !.line = @ + 1, !.column = 1]
                IN Scan(make_token_string(s1, "NEWLINE", <<NL>>), s1)
           [] c = QUOTE -> string_literal(src, s)
           [] OTHER ->
                LET back == [s EXCEPT !.current = @ - 1, !.column = @ - 1] IN
                  IF is_digit(c) THEN number_literal(src, back)
                  ELSE IF is_alpha(c) THEN identifier_or_keyword(src, back)
                  ELSE LET e == add_error(s, <<"Unexpected character: ", c>>)
                       IN Scan(error_token(e, "Unexpected character"), e)

(***************************************************************************)
(* Lexer::tokenize.  One step is one iteration of its while loop, with the *)
(* code after the loop when the iteration leaves it.                       *)
(***************************************************************************)
TokenizeInit == [lexer |-> LexerInit, tokens |-> <<>>, status |-> "loop"]

\* Variant of tokenize_finish that appends the end-of-input token without
\* looking at the last token.
tokenize_finish_always(s, toks) == Append(toks, make_token(s, "EOF_TOKEN"))

\* if (tokens.empty() || tokens.back().type != EOF_TOKEN) tokens.emplace_back(EOF...)
tokenize_finish(s, toks) ==
  IF toks = <<>> \/ toks[Len(toks)].type # "EOF_TOKEN"
  THEN Append(toks, make_token(s, "EOF_TOKEN"))
  ELSE toks

tokenize_step(src, t) ==
  IF is_at_end(src, t.lexer)
  THEN [t EXCEPT !.tokens = tokenize_finish(t.lexer, t.tokens),
                 !.status = "returned"]
  ELSE LET r == next_token(src, t.lexer) IN
    IF r.threw THEN [t EXCEPT !.lexer = r.st, !.status = "threw"]
    ELSE LET toks == IF r.tok.type # "COMMENT" THEN Append(t.tokens, r.tok)
                     ELSE t.tokens
         IN IF r.tok.type \in {"EOF_TOKEN", "ERROR"}
            THEN [lexer |-> r.st, tokens |-> tokenize_finish(r.st, toks),
                  status |-> "returned"]
            ELSE [lexer |-> r.st, tokens |-> toks, status |-> "loop"]

RECURSIVE tokenize_from(_, _)
tokenize_from(src, t) ==
  IF t.status = "loop" THEN tokenize_from(src, tokenize_step(src, t)) ELSE t

\* The whole call: the tokens, the lexer (its errors_) and how it ended.
tokenize(src) == tokenize_from(src, TokenizeInit)

(***************************************************************************)
(* AST nodes (ast.h).  Null is a null unique_ptr.                          *)
(***************************************************************************)
Null == [kind |-> "null"]

IntegerLiteral(v) == [kind |-> "IntegerLiteral", ivalue |-> v]

FloatLiteral(v) == [kind |-> "FloatLiteral", fvalue |-> v]

StringLiteral(v) == [kind |-> "StringLiteral", svalue |-> v]

BooleanLiteral(v) == [kind |-> "BooleanLiteral", bvalue |-> v]

Identifier(n) == [kind |-> "Identifier", name |-> n]

BinaryExpression(l, o, r) ==
  [kind |-> "BinaryExpression", left |-> l, op |-> o, right |-> r]

UnaryExpression(o, e) == [kind |-> "UnaryExpression", op |-> o, operand |-> e]

FunctionCall(f, args) ==
  [kind |-> "FunctionCall", function |-> f, arguments |-> args]

ArrayAccess(a, i) == [kind |-> "ArrayAccess", array |-> a, index |-> i]

MemberAccess(o, m) == [kind |-> "MemberAccess", object |-> o, member |-> m]

ContextConditional(e, c) ==
  [kind |-> "ContextConditional", expression |-> e, context |-> c]

ExpressionStatement(e) == [kind |-> "ExpressionStatement", expression |-> e]

VariableDeclaration(n, ty, init, mut) ==
  [kind |-> "VariableDeclaration", name |-> n, type |-> ty,
   initializer |-> init, is_mutable |-> mut]

Block(stmts) == [kind |-> "Block", statements |-> stmts]

FunctionDefinition(n, params, ret, b) ==
  [kind |-> "FunctionDefinition", name |-> n, parameters |-> params,
   return_type |-> ret, body |-> b]

ReturnStatement(v) == [kind |-> "ReturnStatement", value |-> v]

IfStatement(c, th, el) ==
  [kind |-> "IfStatement", condition |-> c, then_branch |-> th,
   else_branch |-> el]

WhileStatement(c, b) == [kind |-> "WhileStatement", condition |-> c, body |-> b]

ForStatement(v, s, e, b) ==
  [kind |-> "ForStatement", variable |-> v, start |-> s, end |-> e, body |-> b]

Program(stmts) == [kind |-> "Program", statements |-> stmts]

(***************************************************************************)
(* Parser (parser.cpp).  The parser state is current_ and errors_; tokens_ *)
(* is fixed.  A parse routine returns its node and the parser after it.    *)
(***************************************************************************)
ParserInit == [current |-> 0, errors |-> <<>>, threw |-> FALSE]

PR(n, p) == [node |-> n, p |-> p]

\* static Token eof_token{TokenType::EOF_TOKEN, "", 0, 0};
eof_token == Token("EOF_TOKEN", <<>>, DefaultLiteral, 0, 0)

isAtEnd(toks, p) ==
  p.current >= Len(toks) \/ toks[p.current + 1].type = "EOF_TOKEN"

currentToken(toks, p) ==
  IF isAtEnd(toks, p) THEN eof_token ELSE toks[p.current + 1]

peekToken(toks, p, offset) ==
  IF p.current + offset >= Len(toks) THEN eof_token
  ELSE toks[p.current + offset + 1]

\* Parser::advance: the parser after it; it returns tokens_[current_ - 1].
Parser_advance(toks, p) ==
  IF ~isAtEnd(toks, p) THEN [p EXCEPT !.current = @ + 1] ELSE p

check(toks, p, type) ==
  ~isAtEnd(toks, p) /\ currentToken(toks, p).type = type

\* Parser::match(type): the parser after it; it returns check(type) before it.
Parser_match(toks, p, type) ==
  IF check(toks, p, type) THEN Parser_advance(toks, p) ELSE p

checkAny(toks, p, types) == \E ty \in types : check(toks, p, ty)

\* Parser::match(types).
matchAny(toks, p, types) ==
  IF checkAny(toks, p, types) THEN Parser_advance(toks, p) ELSE p

\* tokens_[current_ - 1] after a successful match or advance.
previous(toks, p) == toks[p.current]

error(toks, p, message) ==
  LET token == currentToken(toks, p) IN
    [p EXCEPT !.errors =
       Append(@, [line |-> token.line, column |-> token.column,
                  message |-> message, lexeme |-> token.lexeme])]

\* Parser::consume: the token it returns and the parser after it.
consume(toks, p, type, message) ==
  IF check(toks, p, type)
  THEN [tok |-> toks[p.current + 1], p |-> Parser_advance(toks, p)]
  ELSE [tok |-> currentToken(toks, p), p |-> error(toks, p, message)]

RECURSIVE synchronize_loop(_, _)
synchronize_loop(toks, p) ==
  IF isAtEnd(toks, p) THEN p
  ELSE IF previous(toks, p).type = "SEMICOLON" THEN p
  ELSE IF currentToken(toks, p).type \in
            {"FN", "LET", "IF", "WHILE", "FOR", "RETURN"} THEN p
  ELSE synchronize_loop(toks, Parser_advance(toks, p))

synchronize(toks, p) == synchronize_loop(toks, Parser_advance(toks, p))

tokenToBinaryOperator(type) ==
  CASE type = "PLUS" -> "Add"
    [] type = "MINUS" -> "Sub"
    [] type = "MULTIPLY" -> "Mul"
    [] type = "DIVIDE" -> "Div"
    [] type = "MODULO" -> "Mod"
    [] type = "EQUAL" -> "Eq"
    [] type = "NOT_EQUAL" -> "Ne"
    [] type = "LESS" -> "Lt"
    [] type = "LESS_EQUAL" -> "Le"
    [] type = "GREATER" -> "Gt"
    [] type = "GREATER_EQUAL" -> "Ge"
    [] type = "AND" -> "And"
    [] type = "OR" -> "Or"
    [] type = "ASSIGN" -> "Assign"
    [] OTHER -> "Add"

tokenToUnaryOperator(type) ==
  CASE type = "NOT" -> "Not"
    [] type = "MINUS" -> "Neg"
    [] type = "PLUS" -> "Plus"
    [] OTHER -> "Neg"

RECURSIVE DigitsToNat(_)
\* The value of a digit sequence (std::stoll on a lexeme that is in range).
DigitsToNat(ds) ==
  IF ds = <<>> THEN 0
  ELSE 10 * DigitsToNat(SubSeq(ds, 1, Len(ds) - 1)) + DigitVal(ds[Len(ds)])

\* A double is kept in thousandths: std::stod on "i.ffffff" (digits past the
\* third are dropped).
StodMilli(lex) ==
  LET dot == CHOOSE i \in 1..Len(lex) : lex[i] = "."
      ip == SubSeq(lex, 1, dot - 1)
      fp == SubSeq(lex, dot + 1, dot + 3)
  IN 1000 * DigitsToNat(ip) + DigitsToNat(fp)

\* std::stod on the lexeme of a FLOAT token.
StodLexemeThrows(lex) ==
  LET dot == CHOOSE i \in 1..Len(lex) : lex[i] = "."
  IN StodThrows(SubSeq(lex, 1, dot - 1))

\* "Remove surrounding quotes" of parsePrimary and parseContextConditional.
StripQuotes(value) ==
  IF Len(value) >= 2 /\ value[1] = QUOTE /\ value[Len(value)] = QUOTE
  THEN SubSeq(value, 2, Len(value) - 1)
  ELSE value

parseType(toks, p) ==
  IF check(toks, p, "IDENTIFIER")
  THEN [text |-> toks[p.current + 1].lexeme, p |-> Parser_advance(toks, p)]
  ELSE [text |-> <<>>, p |-> error(toks, p, "Expected type name")]

\* An exception leaving a parse routine: the routines above it are left too,
\* up to the catch of parseDeclaration.  A routine hands the result of a call
\* it makes to the definition that models the statements after that call; a
\* result that threw passes through it unchanged.
Throws(p) == PR(Null, [p EXCEPT !.threw = TRUE])

RECURSIVE Call(_, _, _)
\* A call of parseExpression, parseStatement or parseDeclaration, the routines
\* through which the parser recurses, made from inside a routine.

RECURSIVE parseExpression(_, _), parseAssignment(_, _),
          parseLogicalOr(_, _), LogicalOrLoop(_, _),
          parseLogicalAnd(_, _), LogicalAndLoop(_, _),
          parseEquality(_, _), EqualityLoop(_, _),
          parseComparison(_, _), ComparisonLoop(_, _),
          parseTerm(_, _), TermLoop(_, _),
          parseFactor(_, _), FactorLoop(_, _), parseUnary(_, _),
          parseCall(_, _), CallLoop(_, _), parsePrimary(_, _),
          finishCall(_, _, _), ArgumentLoop(_, _, _),
          finishArrayAccess(_, _, _)

parseExpression(toks, p) == parseAssignment(toks, p)

\* parseAssignment once `value` (v) is parsed.
AssignmentValue(toks, e, v) ==
  IF v.p.threw THEN v
  ELSE IF e.node.kind = "Identifier"
  THEN PR(BinaryExpression(e.node, "Assign", v.node), v.p)
  ELSE PR(e.node, error(toks, v.p, "Invalid assignment target"))

\* parseAssignment once `expr` (e) is parsed.
AssignmentTarget(toks, e) ==
  IF e.p.threw THEN e
  ELSE IF check(toks, e.p, "ASSIGN")
  THEN AssignmentValue(toks, e,
                       parseAssignment(toks, Parser_advance(toks, e.p)))
  ELSE e

parseAssignment(toks, p) == AssignmentTarget(toks, parseLogicalOr(toks, p))

\* expr = make_unique<BinaryExpression>(expr, op, right) once `right` (r) is
\* parsed.
BinaryResult(expr, op, r) ==
  IF r.p.threw THEN r ELSE PR(BinaryExpression(expr, op, r.node), r.p)

\* The while loop of parseLogicalOr; e is `expr` and the parser so far.
LogicalOrLoop(toks, e) ==
  IF e.p.threw THEN e
  ELSE IF check(toks, e.p, "OR")
  THEN LogicalOrLoop(toks,
         BinaryResult(e.node, "Or",
                      parseLogicalAnd(toks, Parser_advance(toks, e.p))))
  ELSE e

parseLogicalOr(toks, p) == LogicalOrLoop(toks, parseLogicalAnd(toks, p))

LogicalAndLoop(toks, e) ==
  IF e.p.threw THEN e
  ELSE IF check(toks, e.p, "AND")
  THEN LogicalAndLoop(toks,
         BinaryResult(e.node, "And",
                      parseEquality(toks, Parser_advance(toks, e.p))))
  ELSE e

parseLogicalAnd(toks, p) == LogicalAndLoop(toks, parseEquality(toks, p))

EqualityLoop(toks, e) ==
  IF e.p.threw THEN e
  ELSE IF checkAny(toks, e.p, {"EQUAL", "NOT_EQUAL"})
  THEN EqualityLoop(toks,
         BinaryResult(e.node, tokenToBinaryOperator(previous(toks, Parser_advance(toks, e.p)).type),
                      parseComparison(toks, Parser_advance(toks, e.p))))
  ELSE e

parseEquality(toks, p) == EqualityLoop(toks, parseComparison(toks, p))

ComparisonLoop(toks, e) ==
  IF e.p.threw THEN e
  ELSE IF checkAny(toks, e.p,
                   {"LESS", "LESS_EQUAL", "GREATER", "GREATER_EQUAL"})
  THEN ComparisonLoop(toks,
         BinaryResult(e.node, tokenToBinaryOperator(previous(toks, Parser_advance(toks, e.p)).type),
                      parseTerm(toks, Parser_advance(toks, e.p))))
  ELSE e

parseComparison(toks, p) == ComparisonLoop(toks, parseTerm(toks, p))

\* Variant of the loop of parseTerm that parses the whole rest of the chain as
\* the right operand.
TermLoop_RightAssociative(toks, e) ==
  IF e.p.threw THEN e
  ELSE IF checkAny(toks, e.p, {"PLUS", "MINUS"})
  THEN BinaryResult(e.node,
         tokenToBinaryOperator(previous(toks, Parser_advance(toks, e.p)).type),
         parseTerm(toks, Parser_advance(toks, e.p)))
  ELSE e

TermLoop(toks, e) ==
  IF e.p.threw THEN e
  ELSE IF checkAny(toks, e.p, {"PLUS", "MINUS"})
  THEN TermLoop(toks,
         BinaryResult(e.node, tokenToBinaryOperator(previous(toks, Parser_advance(toks, e.p)).type),
                      parseFactor(toks, Parser_advance(toks, e.p))))
  ELSE e

parseTerm(toks, p) == TermLoop(toks, parseFactor(toks, p))

FactorLoop(toks, e) ==
  IF e.p.threw THEN e
  ELSE IF checkAny(toks, e.p, {"MULTIPLY", "DIVIDE", "MODULO"})
  THEN FactorLoop(toks,
         BinaryResult(e.node, tokenToBinaryOperator(previous(toks, Parser_advance(toks, e.p)).type),
                      parseUnary(toks, Parser_advance(toks, e.p))))
  ELSE e

parseFactor(toks, p) == FactorLoop(toks, parseUnary(toks, p))

\* make_unique<UnaryExpression>(op, right) once `right` (r) is parsed.
UnaryResult(op, r) ==
  IF r.p.threw THEN r ELSE PR(UnaryExpression(op, r.node), r.p)

parseUnary(toks, p) ==
  IF checkAny(toks, p, {"NOT", "MINUS", "PLUS"})
  THEN UnaryResult(tokenToUnaryOperator(previous(toks, Parser_advance(toks, p)).type),
                   parseUnary(toks, Parser_advance(toks, p)))
  ELSE parseCall(toks, p)

finishMemberAccess(toks, object, p) ==
  LET name == consume(toks, p, "IDENTIFIER", "Expect property name after '.'")
  IN PR(MemberAccess(object, name.tok.lexeme), name.p)

\* Variant of parseContextConditional that asks for one `==` token.
parseContextConditional_SingleEqual(toks, expr, p) ==
  LET c1 == consume(toks, p, "IF", "Expected 'if' for context conditional")
      c2 == consume(toks, c1.p, "IDENTIFIER", "Expected 'context' identifier")
      c3 == consume(toks, c2.p, "EQUAL", "Expected '==' in context conditional")
  IN IF ~check(toks, c3.p, "STRING")
     THEN PR(expr, error(toks, c3.p,
               "Expected context string (\"dev\", \"prod\", or \"test\")"))
     ELSE PR(ContextConditional(expr, StripQuotes(toks[c3.p.current + 1].lexeme)),
             Parser_advance(toks, c3.p))

parseContextConditional(toks, expr, p) ==
  LET c1 == consume(toks, p, "IF", "Expected 'if' for context conditional")
      c2 == consume(toks, c1.p, "IDENTIFIER", "Expected 'context' identifier")
      c3 == consume(toks, c2.p, "EQUAL", "Expected '==' in context conditional")
      c4 == consume(toks, c3.p, "EQUAL", "Expected '==' in context conditional")
  IN IF ~check(toks, c4.p, "STRING")
     THEN PR(expr, error(toks, c4.p,
               "Expected context string (\"dev\", \"prod\", or \"test\")"))
     ELSE PR(ContextConditional(expr, StripQuotes(toks[c4.p.current + 1].lexeme)),
             Parser_advance(toks, c4.p))

\* The while (true) loop of parseCall; e is `expr` and the parser so far.
CallLoop(toks, e) ==
  IF e.p.threw THEN e
  ELSE IF check(toks, e.p, "LEFT_PAREN")
  THEN CallLoop(toks, finishCall(toks, e.node, Parser_advance(toks, e.p)))
  ELSE IF check(toks, e.p, "LEFT_BRACKET")
  THEN CallLoop(toks, finishArrayAccess(toks, e.node, Parser_advance(toks, e.p)))
  ELSE IF check(toks, e.p, "DOT")
  THEN CallLoop(toks, finishMemberAccess(toks, e.node, Parser_advance(toks, e.p)))
  ELSE e

\* parseCall after its loop: the check for a context conditional.
CallContext(toks, l) ==
  IF l.p.threw THEN l
  ELSE IF /\ check(toks, l.p, "IF")
          /\ peekToken(toks, l.p, 1).type = "IDENTIFIER"
          /\ peekToken(toks, l.p, 2).type = "EQUAL"
  THEN parseContextConditional(toks, l.node, l.p)
  ELSE l

parseCall(toks, p) == CallContext(toks, CallLoop(toks, parsePrimary(toks, p)))

\* parsePrimary, LEFT_PAREN: consume(RIGHT_PAREN) once `expr` (e) is parsed.
Grouping(toks, e) ==
  IF e.p.threw THEN e
  ELSE PR(e.node,
          consume(toks, e.p, "RIGHT_PAREN", "Expect ')' after expression").p)

\* Variant of parsePrimary that does not step over a `)` it cannot parse.
parsePrimary_KeepsParen(toks, p) ==
  LET p1 == Parser_advance(toks, p)
      lex == currentToken(toks, p).lexeme
  IN CASE check(toks, p, "TRUE") -> PR(BooleanLiteral(TRUE), p1)
       [] check(toks, p, "FALSE") -> PR(BooleanLiteral(FALSE), p1)
       [] check(toks, p, "INTEGER") ->
            IF StollThrows(lex) THEN Throws(p1)
            ELSE PR(IntegerLiteral(DigitsToNat(lex)), p1)
       [] check(toks, p, "FLOAT") ->
            IF StodLexemeThrows(lex) THEN Throws(p1)
            ELSE PR(FloatLiteral(StodMilli(lex)), p1)
       [] check(toks, p, "STRING") -> PR(StringLiteral(StripQuotes(lex)), p1)
       [] check(toks, p, "IDENTIFIER") -> PR(Identifier(lex), p1)
       [] check(toks, p, "LEFT_PAREN") ->
            Grouping(toks, Call("parseExpression", toks, p1))
       [] check(toks, p, "RIGHT_PAREN") ->
            PR(Null, error(toks, p, "Expect expression"))
       [] OTHER ->
            PR(Null, Parser_advance(toks, error(toks, p, "Expect expression")))

\* Variant of parsePrimary that returns null without recording a diagnostic.
parsePrimary_Silent(toks, p) ==
  LET p1 == Parser_advance(toks, p)
      lex == currentToken(toks, p).lexeme
  IN CASE check(toks, p, "TRUE") -> PR(BooleanLiteral(TRUE), p1)
       [] check(toks, p, "FALSE") -> PR(BooleanLiteral(FALSE), p1)
       [] check(toks, p, "INTEGER") ->
            IF StollThrows(lex) THEN Throws(p1)
            ELSE PR(IntegerLiteral(DigitsToNat(lex)), p1)
       [] check(toks, p, "FLOAT") ->
            IF StodLexemeThrows(lex) THEN Throws(p1)
            ELSE PR(FloatLiteral(StodMilli(lex)), p1)
       [] check(toks, p, "STRING") -> PR(StringLiteral(StripQuotes(lex)), p1)
       [] check(toks, p, "IDENTIFIER") -> PR(Identifier(lex), p1)
       [] check(toks, p, "LEFT_PAREN") ->
            Grouping(toks, Call("parseExpression", toks, p1))
       [] OTHER -> PR(Null, p1)

\* std::stoll and std::stod of parsePrimary throw on a lexeme out of range.
parsePrimary(toks, p) ==
  LET p1 == Parser_advance(toks, p)
      lex == currentToken(toks, p).lexeme
  IN CASE check(toks, p, "TRUE") -> PR(BooleanLiteral(TRUE), p1)
       [] check(toks, p, "FALSE") -> PR(BooleanLiteral(FALSE), p1)
       [] check(toks, p, "INTEGER") ->
            IF StollThrows(lex) THEN Throws(p1)
            ELSE PR(IntegerLiteral(DigitsToNat(lex)), p1)
       [] check(toks, p, "FLOAT") ->
            IF StodLexemeThrows(lex) THEN Throws(p1)
            ELSE PR(FloatLiteral(StodMilli(lex)), p1)
       [] check(toks, p, "STRING") -> PR(StringLiteral(StripQuotes(lex)), p1)
       [] check(toks, p, "IDENTIFIER") -> PR(Identifier(lex), p1)
       [] check(toks, p, "LEFT_PAREN") ->
            Grouping(toks, Call("parseExpression", toks, p1))
       [] OTHER ->
            PR(Null, Parser_advance(toks, error(toks, p, "Expect expression")))

\* finishCall, do { ... } while (match(COMMA)), once an argument (a) is
\* parsed.
ArgumentNext(toks, args, a) ==
  IF a.p.threw THEN a
  ELSE IF check(toks, a.p, "COMMA")
  THEN ArgumentLoop(toks, Append(args, a.node), Parser_advance(toks, a.p))
  ELSE PR(Append(args, a.node), a.p)

ArgumentLoop(toks, args, p) ==
  ArgumentNext(toks, args, Call("parseExpression", toks, p))

\* finishCall once the arguments are parsed.
CallArguments(toks, callee, args) ==
  IF args.p.threw THEN args
  ELSE PR(FunctionCall(callee, args.node),
          consume(toks, args.p, "RIGHT_PAREN", "Expect ')' after arguments").p)

finishCall(toks, callee, p) ==
  CallArguments(toks, callee,
                IF ~check(toks, p, "RIGHT_PAREN")
                THEN ArgumentLoop(toks, <<>>, p)
                ELSE PR(<<>>, p))

\* finishArrayAccess once `index` is parsed.
ArrayIndex(toks, array, index) ==
  IF index.p.threw THEN index
  ELSE PR(ArrayAccess(array, index.node),
          consume(toks, index.p, "RIGHT_BRACKET",
                  "Expect ']' after array index").p)

finishArrayAccess(toks, array, p) ==
  ArrayIndex(toks, array, Call("parseExpression", toks, p))

RECURSIVE skip_newlines(_, _)
\* while (match(TokenType::NEWLINE)) {}
skip_newlines(toks, p) ==
  IF check(toks, p, "NEWLINE") THEN skip_newlines(toks, Parser_advance(toks, p))
  ELSE p

RECURSIVE ParameterLoop(_, _, _)
ParameterLoop(toks, params, p) ==
  LET name == consume(toks, p, "IDENTIFIER", "Expect parameter name")
      colon == consume(toks, name.p, "COLON", "Expect ':' after parameter name")
      type == parseType(toks, colon.p)
      ps == Append(params, [name |-> name.tok.lexeme, type |-> type.text])
  IN IF check(toks, type.p, "COMMA")
     THEN ParameterLoop(toks, ps, Parser_advance(toks, type.p))
     ELSE PR(ps, type.p)

parseParameterList(toks, p) ==
  IF ~check(toks, p, "RIGHT_PAREN") THEN ParameterLoop(toks, <<>>, p)
  ELSE PR(<<>>, p)

\* parseVarDeclaration once the initializer is parsed.
VarInitializer(toks, name, type, is_mutable, initializer) ==
  IF initializer.p.threw THEN initializer
  ELSE PR(VariableDeclaration(name, type, initializer.node, is_mutable),
          consume(toks, initializer.p, "SEMICOLON",
                  "Expect ';' after variable declaration").p)

\* parseVarDeclaration once the type annotation, if any, is parsed.
VarType(toks, name, type, is_mutable) ==
  VarInitializer(toks, name, type.text, is_mutable,
                 IF check(toks, type.p, "ASSIGN")
                 THEN Call("parseExpression", toks, Parser_advance(toks, type.p))
                 ELSE PR(Null, type.p))

\* parseVarDeclaration once the name is consumed.
VarName(toks, name, is_mutable) ==
  VarType(toks, name.tok.lexeme,
          IF check(toks, name.p, "COLON")
          THEN parseType(toks, Parser_advance(toks, name.p))
          ELSE [text |-> <<>>, p |-> name.p],
          is_mutable)

parseVarDeclaration(toks, p) ==
  VarName(toks,
          consume(toks, Parser_match(toks, p, "MUT"), "IDENTIFIER",
                  "Expect variable name"),
          check(toks, p, "MUT"))

\* parseReturnStatement once the value, if any, is parsed.
ReturnValue(toks, value) ==
  IF value.p.threw THEN value
  ELSE PR(ReturnStatement(value.node),
          consume(toks, value.p, "SEMICOLON", "Expect ';' after return value").p)

parseReturnStatement(toks, p) ==
  ReturnValue(toks, IF ~check(toks, p, "SEMICOLON") THEN Call("parseExpression", toks, p)
                    ELSE PR(Null, p))

\* parseExpressionStatement once the expression is parsed.
StatementExpression(toks, expr) ==
  IF expr.p.threw THEN expr
  ELSE PR(ExpressionStatement(expr.node),
          consume(toks, expr.p, "SEMICOLON", "Expect ';' after expression").p)

parseExpressionStatement(toks, p) ==
  StatementExpression(toks, Call("parseExpression", toks, p))

RECURSIVE parseStatement(_, _), parseDeclaration(_, _),
          parseBlockStatement(_, _), BlockLoop(_, _, _),
          parseIfStatement(_, _), parseWhileStatement(_, _),
          parseForStatement(_, _), parseFunctionDeclaration(_, _)

parseStatement(toks, p) ==
  CASE check(toks, p, "IF") -> parseIfStatement(toks, Parser_advance(toks, p))
    [] check(toks, p, "WHILE") -> parseWhileStatement(toks, Parser_advance(toks, p))
    [] check(toks, p, "FOR") -> parseForStatement(toks, Parser_advance(toks, p))
    [] check(toks, p, "RETURN") ->
         parseReturnStatement(toks, Parser_advance(toks, p))
    [] check(toks, p, "LEFT_BRACE") -> parseBlockStatement(toks, p)
    [] OTHER -> parseExpressionStatement(toks, p)

\* catch (...) { synchronize(); return nullptr; } of parseDeclaration; d is
\* the outcome of its try block.
DeclarationCatch(toks, d) ==
  IF d.p.threw THEN PR(Null, synchronize(toks, [d.p EXCEPT !.threw = FALSE]))
  ELSE d

parseDeclaration(toks, p) ==
  DeclarationCatch(toks,
    CASE check(toks, p, "FN") ->
           parseFunctionDeclaration(toks, Parser_advance(toks, p))
      [] check(toks, p, "LET") ->
           parseVarDeclaration(toks, Parser_advance(toks, p))
      [] OTHER -> Call("parseStatement", toks, p))

\* statements.push_back(parseDeclaration()) of parseBlockStatement, then its
\* loop again.
BlockNext(toks, stmts, d) == BlockLoop(toks, Append(stmts, d.node), d.p)

\* One iteration of the loop of parseBlockStatement once the newlines are
\* skipped.
BlockStatement(toks, stmts, p) ==
  IF check(toks, p, "RIGHT_BRACE") \/ isAtEnd(toks, p) THEN PR(stmts, p)
  ELSE BlockNext(toks, stmts, Call("parseDeclaration", toks, p))

BlockLoop(toks, stmts, p) ==
  IF ~check(toks, p, "RIGHT_BRACE") /\ ~isAtEnd(toks, p)
  THEN BlockStatement(toks, stmts, skip_newlines(toks, p))
  ELSE PR(stmts, p)

\* parseBlockStatement after its loop.
BlockEnd(toks, body) ==
  PR(Block(body.node), consume(toks, body.p, "RIGHT_BRACE", "Expect '}'").p)

parseBlockStatement(toks, p) ==
  BlockEnd(toks, BlockLoop(toks, <<>>, consume(toks, p, "LEFT_BRACE", "Expect '{'").p))

\* parseFunctionDeclaration once the body is parsed.
FunctionBody(name, parameters, return_type, body) ==
  PR(FunctionDefinition(name, parameters, return_type, body.node), body.p)

\* parseFunctionDeclaration once the return type, if any, is parsed.
FunctionReturnType(toks, name, parameters, return_type) ==
  FunctionBody(name, parameters, return_type.text,
               parseBlockStatement(toks, return_type.p))

\* parseFunctionDeclaration once the parameter list is closed.
FunctionParameters(toks, name, parameters, rp) ==
  FunctionReturnType(toks, name, parameters,
                     IF check(toks, rp.p, "ARROW")
                     THEN parseType(toks, Parser_advance(toks, rp.p))
                     ELSE [text |-> <<>>, p |-> rp.p])

\* parseFunctionDeclaration once the parameter list is parsed.
FunctionParameterList(toks, name, parameters) ==
  FunctionParameters(toks, name, parameters.node,
                     consume(toks, parameters.p, "RIGHT_PAREN",
                             "Expect ')' after parameters"))

\* parseFunctionDeclaration once the name is consumed.
FunctionName(toks, name) ==
  FunctionParameterList(toks, name.tok.lexeme,
    parseParameterList(toks,
      consume(toks, name.p, "LEFT_PAREN", "Expect '(' after function name").p))

parseFunctionDeclaration(toks, p) ==
  FunctionName(toks, consume(toks, p, "IDENTIFIER", "Expect function name"))

\* parseIfStatement once the else branch, if any, is parsed.
IfElse(condition, then_branch, else_branch) ==
  IF else_branch.p.threw THEN else_branch
  ELSE PR(IfStatement(condition, then_branch, else_branch.node), else_branch.p)

\* parseIfStatement once the then branch is parsed.
IfThen(toks, condition, then_branch) ==
  IF then_branch.p.threw THEN then_branch
  ELSE IfElse(condition, then_branch.node,
              IF check(toks, then_branch.p, "ELSE")
              THEN Call("parseStatement", toks, Parser_advance(toks, then_branch.p))
              ELSE PR(Null, then_branch.p))

\* parseIfStatement once the condition is parsed.
IfCondition(toks, condition) ==
  IF condition.p.threw THEN condition
  ELSE IfThen(toks, condition.node, Call("parseStatement", toks, condition.p))

parseIfStatement(toks, p) == IfCondition(toks, Call("parseExpression", toks, p))

\* parseWhileStatement once the body is parsed.
WhileBody(condition, body) ==
  IF body.p.threw THEN body
  ELSE PR(WhileStatement(condition, body.node), body.p)

\* parseWhileStatement once the condition is parsed.
WhileCondition(toks, condition) ==
  IF condition.p.threw THEN condition
  ELSE WhileBody(condition.node, Call("parseStatement", toks, condition.p))

parseWhileStatement(toks, p) == WhileCondition(toks, Call("parseExpression", toks, p))

\* parseForStatement once the body is parsed.
ForBody(var_name, start, end, body) ==
  IF body.p.threw THEN body
  ELSE PR(ForStatement(var_name, start, end, body.node), body.p)

\* parseForStatement once the end of the range is parsed.
ForEnd(toks, var_name, start, end) ==
  IF end.p.threw THEN end
  ELSE ForBody(var_name, start, end.node, Call("parseStatement", toks, end.p))

\* parseForStatement once the start of the range is parsed.
ForStart(toks, var_name, start) ==
  IF start.p.threw THEN start
  ELSE ForEnd(toks, var_name, start.node,
         Call("parseExpression", toks,
           consume(toks,
                   consume(toks, start.p, "DOT", "Expect '..' in range").p,
                   "DOT", "Expect '..' in range").p))

\* parseForStatement once the loop variable is consumed.
ForVariable(toks, var_name) ==
  ForStart(toks, var_name.tok.lexeme,
    Call("parseExpression", toks,
      consume(toks, var_name.p, "IN", "Expect 'in' after loop variable").p))

parseForStatement(toks, p) ==
  ForVariable(toks, consume(toks, p, "IDENTIFIER", "Expect loop variable name"))

Call(routine, toks, p) ==
  CASE routine = "parseExpression" -> parseExpression(toks, p)
    [] routine = "parseStatement" -> parseStatement(toks, p)
    [] routine = "parseDeclaration" -> parseDeclaration(toks, p)

RECURSIVE ProgramLoop(_, _, _)
\* parseProgram once a declaration (d) is parsed: a null one is skipped and
\* the parser synchronizes.
ProgramNext(toks, stmts, d) ==
  IF d.node # Null THEN ProgramLoop(toks, Append(stmts, d.node), d.p)
  ELSE ProgramLoop(toks, stmts, synchronize(toks, d.p))

\* One iteration of the loop of parseProgram once the newlines are skipped.
ProgramStatement(toks, stmts, p) ==
  IF isAtEnd(toks, p) THEN PR(stmts, p)
  ELSE ProgramNext(toks, stmts, Call("parseDeclaration", toks, p))

\* The while loop of parseProgram.
ProgramLoop(toks, stmts, p) ==
  IF ~isAtEnd(toks, p) THEN ProgramStatement(toks, stmts, skip_newlines(toks, p))
  ELSE PR(stmts, p)

\* make_unique<Program>(statements) of parseProgram.
ProgramResult(r) == PR(Program(r.node), r.p)

\* Parser(tokens).parseProgram(): the Program and the parser (its errors_).
parseProgram(toks) == ProgramResult(ProgramLoop(toks, <<>>, ParserInit))

(***************************************************************************)
(* Interpreter (interpreter.h).                                            *)
(*                                                                         *)
(* RuntimeValue = std::variant<int64_t, double, std::string, bool>; a      *)
(* double is kept in thousandths.                                          *)
(***************************************************************************)
IntV(n) == [t |-> "int", int |-> n]

FloatV(m) == [t |-> "float", milli |-> m]

StrV(s) == [t |-> "string", str |-> s]

BoolV(b) == [t |-> "bool", bool |-> b]

\* operator== of the variant: same alternative and same value.
ValueEq(a, b) == a.t = b.t /\ a = b

\* Environment: parent_ (0 for none) and variables_.
NoVariables == [n \in {} |-> IntV(0)]

Environment(parent) == [parent |-> parent, variables |-> NoVariables]

\* Environment::define on the variables_ map.
define(variables, name, value) ==
  [n \in DOMAIN variables \cup {name} |->
     IF n = name THEN value ELSE variables[n]]

RECURSIVE get(_, _, _)
\* Environment::get: the value, or found = FALSE where the code throws.
get(envs, env, name) ==
  IF name \in DOMAIN envs[env].variables
  THEN [found |-> TRUE, value |-> envs[env].variables[name]]
  ELSE IF envs[env].parent # 0 THEN get(envs, envs[env].parent, name)
  ELSE [found |-> FALSE, value |-> IntV(0)]

RECURSIVE assign(_, _, _, _)
\* Environment::assign: the environments after it, or found = FALSE where
\* the code throws.
assign(envs, env, name, value) ==
  IF name \in DOMAIN envs[env].variables
  THEN [found |-> TRUE,
        envs |-> [envs EXCEPT ![env].variables[name] = value]]
  ELSE IF envs[env].parent # 0 THEN assign(envs, envs[env].parent, name, value)
  ELSE [found |-> FALSE, envs |-> envs]

(***************************************************************************)
(* The interpreter: environment_ (an index into envs, the environments     *)
(* alive), lastValue_, std::cout, std::cin, and what is in flight: exc,    *)
(* the message of the exception being propagated (<<>> for none), and fate *)
(* ("ok", "crash" after a null dereference, "hang" in an endless loop).    *)
(* trace records the call's visits, throws and block entries and exits.    *)
(***************************************************************************)
RootEnv == 1

InterpreterInit(cin) ==
  [environment_ |-> RootEnv, envs |-> <<Environment(0)>>,
   lastValue_ |-> IntV(0), cout |-> <<>>, cin |-> cin,
   exc |-> <<>>, fate |-> "ok", trace |-> <<>>]

Running(I) == I.exc = <<>> /\ I.fate = "ok"

Throw(I, message) ==
  [I EXCEPT !.exc = message,
            !.trace = Append(@, [e |-> "throw", what |-> message])]

Crash(I) == [I EXCEPT !.fate = "crash"]

Visited(I, node) ==
  [I EXCEPT !.trace = Append(@, [e |-> "visit", node |-> node])]

SetLast(I, v) == [I EXCEPT !.lastValue_ = v]

isTruthy(v) ==
  CASE v.t = "bool" -> v.bool
    [] v.t = "int" -> v.int # 0
    [] v.t = "float" -> v.milli # 0
    [] v.t = "string" -> v.str # <<>>

DigitChar(d) ==
  CASE d = 0 -> "0" [] d = 1 -> "1" [] d = 2 -> "2" [] d = 3 -> "3"
    [] d = 4 -> "4" [] d = 5 -> "5" [] d = 6 -> "6" [] d = 7 -> "7"
    [] d = 8 -> "8" [] d = 9 -> "9"

RECURSIVE NatToDigits(_)
NatToDigits(n) ==
  IF n < 10 THEN <<DigitChar(n)>>
  ELSE Append(NatToDigits(n \div 10), DigitChar(n % 10))

\* std::to_string(int64_t).
IntToString(n) == IF n < 0 THEN <<"-">> \o NatToDigits(-n) ELSE NatToDigits(n)

\* std::to_string(double): "%f" of a value kept in thousandths.
DoubleToString(m) ==
  LET a == IF m < 0 THEN -m ELSE m
      f == a % 1000
  IN (IF m < 0 THEN <<"-">> ELSE <<>>) \o NatToDigits(a \div 1000) \o <<".">>
       \o <<DigitChar(f \div 100), DigitChar((f \div 10) % 10), DigitChar(f % 10),
            "0", "0", "0">>

valueToString(v) ==
  CASE v.t = "int" -> IntToString(v.int)
    [] v.t = "float" -> DoubleToString(v.milli)
    [] v.t = "string" -> v.str
    [] v.t = "bool" -> IF v.bool THEN <<"t","r","u","e">>
                       ELSE <<"f","a","l","s","e">>

\* C++ integer division truncates toward zero.
TruncDiv(a, b) ==
  LET q == (IF a < 0 THEN -a ELSE a) \div (IF b < 0 THEN -b ELSE b)
  IN IF (a < 0) = (b < 0) THEN q ELSE -q

RECURSIVE PrintArgs(_, _)
\* The loop of callPrint: the values space-separated.
PrintArgs(args, i) ==
  IF i > Len(args) THEN <<>>
  ELSE (IF i > 1 THEN <<" ">> ELSE <<>>) \o valueToString(args[i])
         \o PrintArgs(args, i + 1)

callPrint(I, args) ==
  SetLast([I EXCEPT !.cout = @ \o PrintArgs(args, 1) \o <<NL>>], IntV(0))

\* std::getline leaves the string empty at end of input.
callInput(I, args) ==
  LET I1 == IF args # <<>>
            THEN [I EXCEPT !.cout = @ \o valueToString(args[1])]
            ELSE I
  IN IF I1.cin = <<>> THEN SetLast(I1, StrV(<<>>))
     ELSE SetLast([I1 EXCEPT !.cin = Tail(@)], StrV(Head(I1.cin)))

callLength(I, args) ==
  IF Len(args) # 1
  THEN Throw(I, <<"length() expects exactly 1 argument">>)
  ELSE IF args[1].t = "string" THEN SetLast(I, IntV(Len(args[1].str)))
  ELSE Throw(I, <<"length() can only be called on strings">>)

\* Variant of substr that takes the character at the end index too.
substr_Inclusive(str, pos, count) ==
  SubSeq(str, pos + 1,
         IF pos + count + 1 > Len(str) THEN Len(str) ELSE pos + count + 1)

\* std::string::substr(pos, count) for pos <= size().
substr(str, pos, count) ==
  SubSeq(str, pos + 1, IF pos + count > Len(str) THEN Len(str) ELSE pos + count)

callSubstring(I, args) ==
  IF Len(args) < 2 \/ Len(args) > 3
  THEN Throw(I, <<"substring() expects 2 or 3 arguments: substring(string, start, [length])">>)
  ELSE IF args[1].t # "string"
  THEN Throw(I, <<"substring() first argument must be a string">>)
  ELSE IF args[2].t # "int"
  THEN Throw(I, <<"substring() second argument must be an integer">>)
  ELSE LET str == args[1].str
           start == args[2].int
       IN IF start < 0 \/ start >= Len(str) THEN SetLast(I, StrV(<<>>))
          ELSE IF Len(args) = 3
          THEN IF args[3].t # "int"
               THEN Throw(I, <<"substring() third argument must be an integer">>)
               ELSE IF args[3].int < 0 THEN SetLast(I, StrV(<<>>))
               ELSE SetLast(I, StrV(substr(str, start, args[3].int)))
          ELSE SetLast(I, StrV(SubSeq(str, start + 1, Len(str))))

\* Variant of the switch in which + promotes an int operand to float when the
\* other operand is a float.
BinaryOp_Promoting(I, op, left, right) ==
  LET ints == left.t = "int" /\ right.t = "int"
      floats == left.t = "float" /\ right.t = "float"
      strings == left.t = "string" /\ right.t = "string"
      compare(i, f) ==
        IF ints THEN SetLast(I, BoolV(i))
        ELSE IF floats THEN SetLast(I, BoolV(f))
        ELSE Throw(I, <<"Invalid operands for comparison">>)
  IN CASE op = "Add" ->
            IF ints THEN SetLast(I, IntV(left.int + right.int))
            ELSE IF floats THEN SetLast(I, FloatV(left.milli + right.milli))
            ELSE IF strings THEN SetLast(I, StrV(left.str \o right.str))
            ELSE IF left.t = "int" /\ right.t = "float"
            THEN SetLast(I, FloatV(left.int * 1000 + right.milli))
            ELSE IF left.t = "float" /\ right.t = "int"
            THEN SetLast(I, FloatV(left.milli + right.int * 1000))
            ELSE Throw(I, <<"Invalid operands for addition">>)
       [] op = "Sub" ->
            IF ints THEN SetLast(I, IntV(left.int - right.int))
            ELSE IF floats THEN SetLast(I, FloatV(left.milli - right.milli))
            ELSE Throw(I, <<"Invalid operands for subtraction">>)
       [] op = "Mul" ->
            IF ints THEN SetLast(I, IntV(left.int * right.int))
            ELSE IF floats
            THEN SetLast(I, FloatV(TruncDiv(left.milli * right.milli, 1000)))
            ELSE Throw(I, <<"Invalid operands for multiplication">>)
       [] op = "Div" ->
            IF ints
            THEN IF right.int = 0 THEN Throw(I, <<"Division by zero">>)
                 ELSE SetLast(I, IntV(TruncDiv(left.int, right.int)))
            ELSE IF floats
            THEN IF right.milli = 0 THEN Throw(I, <<"Division by zero">>)
                 ELSE SetLast(I, FloatV(TruncDiv(left.milli * 1000, right.milli)))
            ELSE Throw(I, <<"Invalid operands for division">>)
       [] op = "Eq" -> SetLast(I, BoolV(ValueEq(left, right)))
       [] op = "Ne" -> SetLast(I, BoolV(~ValueEq(left, right)))
       [] op = "Lt" -> compare(ints /\ left.int < right.int,
                               floats /\ left.milli < right.milli)
       [] op = "Gt" -> compare(ints /\ left.int > right.int,
                               floats /\ left.milli > right.milli)
       [] op = "Le" -> compare(ints /\ left.int <= right.int,
                               floats /\ left.milli <= right.milli)
       [] op = "Ge" -> compare(ints /\ left.int >= right.int,
                               floats /\ left.milli >= right.milli)
       [] op = "And" -> SetLast(I, BoolV(isTruthy(left) /\ isTruthy(right)))
       [] op = "Or" -> SetLast(I, BoolV(isTruthy(left) \/ isTruthy(right)))
       [] OTHER -> Throw(I, <<"Unsupported binary operator">>)

\* The switch of visit(BinaryExpression&) on the two operand values.
BinaryOp(I, op, left, right) ==
  LET ints == left.t = "int" /\ right.t = "int"
      floats == left.t = "float" /\ right.t = "float"
      strings == left.t = "string" /\ right.t = "string"
      compare(i, f) ==
        IF ints THEN SetLast(I, BoolV(i))
        ELSE IF floats THEN SetLast(I, BoolV(f))
        ELSE Throw(I, <<"Invalid operands for comparison">>)
  IN CASE op = "Add" ->
            IF ints THEN SetLast(I, IntV(left.int + right.int))
            ELSE IF floats THEN SetLast(I, FloatV(left.milli + right.milli))
            ELSE IF strings THEN SetLast(I, StrV(left.str \o right.str))
            ELSE Throw(I, <<"Invalid operands for addition">>)
       [] op = "Sub" ->
            IF ints THEN SetLast(I, IntV(left.int - right.int))
            ELSE IF floats THEN SetLast(I, FloatV(left.milli - right.milli))
            ELSE Throw(I, <<"Invalid operands for subtraction">>)
       [] op = "Mul" ->
            IF ints THEN SetLast(I, IntV(left.int * right.int))
            ELSE IF floats
            THEN SetLast(I, FloatV(TruncDiv(left.milli * right.milli, 1000)))
            ELSE Throw(I, <<"Invalid operands for multiplication">>)
       [] op = "Div" ->
            IF ints
            THEN IF right.int = 0 THEN Throw(I, <<"Division by zero">>)
                 ELSE SetLast(I, IntV(TruncDiv(left.int, right.int)))
            ELSE IF floats
            THEN IF right.milli = 0 THEN Throw(I, <<"Division by zero">>)
                 ELSE SetLast(I, FloatV(TruncDiv(left.milli * 1000, right.milli)))
            ELSE Throw(I, <<"Invalid operands for division">>)
       [] op = "Eq" -> SetLast(I, BoolV(ValueEq(left, right)))
       [] op = "Ne" -> SetLast(I, BoolV(~ValueEq(left, right)))
       [] op = "Lt" -> compare(ints /\ left.int < right.int,
                               floats /\ left.milli < right.milli)
       [] op = "Gt" -> compare(ints /\ left.int > right.int,
                               floats /\ left.milli > right.milli)
       [] op = "Le" -> compare(ints /\ left.int <= right.int,
                               floats /\ left.milli <= right.milli)
       [] op = "Ge" -> compare(ints /\ left.int >= right.int,
                               floats /\ left.milli >= right.milli)
       [] op = "And" -> SetLast(I, BoolV(isTruthy(left) /\ isTruthy(right)))
       [] op = "Or" -> SetLast(I, BoolV(isTruthy(left) \/ isTruthy(right)))
       [] OTHER -> Throw(I, <<"Unsupported binary operator">>)

\* The switch of visit(UnaryExpression&) on the operand value.
\* Variant of the switch of visit(UnaryExpression&) in which unary plus
\* yields its operand.
UnaryOp_PlusIdentity(I, op, operand) ==
  CASE op = "Neg" ->
         IF operand.t = "int" THEN SetLast(I, IntV(-operand.int))
         ELSE IF operand.t = "float" THEN SetLast(I, FloatV(-operand.milli))
         ELSE Throw(I, <<"Invalid operand for negation">>)
    [] op = "Not" -> SetLast(I, BoolV(~isTruthy(operand)))
    [] op = "Plus" -> SetLast(I, operand)
    [] OTHER -> Throw(I, <<"Unsupported unary operator">>)

UnaryOp(I, op, operand) ==
  CASE op = "Neg" ->
         IF operand.t = "int" THEN SetLast(I, IntV(-operand.int))
         ELSE IF operand.t = "float" THEN SetLast(I, FloatV(-operand.milli))
         ELSE Throw(I, <<"Invalid operand for negation">>)
    [] op = "Not" -> SetLast(I, BoolV(~isTruthy(operand)))
    [] OTHER -> Throw(I, <<"Unsupported unary operator">>)

\* Variant of BlockCatch that rethrows without restoring environment_.
BlockCatch_NoRestore(I, saved, alive) ==
  [I EXCEPT !.trace = Append(@, [e |-> "leave", env |-> I.environment_,
                              envs |-> I.envs])]

\* catch (...) { environment_ = previous; throw; } of visit(Block&): the
\* block's environment dies with it, the exception goes on.
BlockCatch(I, saved, alive) ==
  LET R == [I EXCEPT !.environment_ = saved, !.envs = SubSeq(@, 1, alive)]
  IN [R EXCEPT !.trace = Append(@, [e |-> "leave", env |-> R.environment_,
                                 envs |-> R.envs])]

\* environment_ = previous; at the end of visit(Block&).
BlockExit(I, saved, alive) ==
  LET R == [I EXCEPT !.environment_ = saved, !.envs = SubSeq(@, 1, alive)]
  IN [R EXCEPT !.trace = Append(@, [e |-> "leave", env |-> R.environment_,
                                 envs |-> R.envs])]

BuiltinNames ==
  { <<"p","r","i","n","t">>, <<"i","n","p","u","t">>,
    <<"l","e","n","g","t","h">>, <<"s","u","b","s","t","r","i","n","g">> }

CallBuiltin(I, functionName, args) ==
  CASE functionName = <<"p","r","i","n","t">> -> callPrint(I, args)
    [] functionName = <<"i","n","p","u","t">> -> callInput(I, args)
    [] functionName = <<"l","e","n","g","t","h">> -> callLength(I, args)
    [] functionName = <<"s","u","b","s","t","r","i","n","g">> ->
         callSubstring(I, args)

RECURSIVE accept(_, _), visitStatements(_, _, _), visitArguments(_, _, _, _),
          visitStatements_Continuing(_, _, _),
          visitArguments_Writing(_, _, _, _),
          visitBinaryExpression(_, _), visitUnaryExpression(_, _),
          visitFunctionCall(_, _), visitVariableDeclaration(_, _),
          visitBlock(_, _), visitIfStatement(_, _), visitWhileStatement(_, _)

visitIdentifier(node, I) ==
  LET r == get(I.envs, I.environment_, node.name) IN
    IF r.found THEN SetLast(I, r.value)
    ELSE Throw(I, <<"Undefined variable '">> \o node.name \o <<"'">>)

\* Variant of visit(BinaryExpression&) in which `and` and `or` skip the right
\* operand when the left one decides the result.
visitBinaryExpression_ShortCircuit(node, I) ==
  LET L == accept(node.left, I) IN
    IF ~Running(L) THEN L
    ELSE IF node.op = "And" /\ ~isTruthy(L.lastValue_)
    THEN SetLast(L, BoolV(FALSE))
    ELSE IF node.op = "Or" /\ isTruthy(L.lastValue_)
    THEN SetLast(L, BoolV(TRUE))
    ELSE LET R == accept(node.right, L) IN
      IF ~Running(R) THEN R
      ELSE BinaryOp(R, node.op, L.lastValue_, R.lastValue_)

visitBinaryExpression(node, I) ==
  LET L == accept(node.left, I) IN
    IF ~Running(L) THEN L
    ELSE LET R == accept(node.right, L) IN
      IF ~Running(R) THEN R
      ELSE BinaryOp(R, node.op, L.lastValue_, R.lastValue_)

visitUnaryExpression(node, I) ==
  LET O == accept(node.operand, I) IN
    IF ~Running(O) THEN O ELSE UnaryOp(O, node.op, O.lastValue_)

\* Variant of the argument loop that writes each argument's value as soon as
\* it has been evaluated.
visitArguments_Writing(arguments, i, I, args) ==
  IF i > Len(arguments) THEN [I |-> I, args |-> args]
  ELSE LET A == accept(arguments[i], I) IN
    IF ~Running(A) THEN [I |-> A, args |-> args]
    ELSE visitArguments(arguments, i + 1,
           [A EXCEPT !.cout = @ \o valueToString(A.lastValue_)],
           Append(args, A.lastValue_))

\* for (auto& arg : node.arguments) { arg->accept(*this); args.push_back(...) }
visitArguments(arguments, i, I, args) ==
  IF i > Len(arguments) THEN [I |-> I, args |-> args]
  ELSE LET A == accept(arguments[i], I) IN
    IF ~Running(A) THEN [I |-> A, args |-> args]
    ELSE visitArguments(arguments, i + 1, A, Append(args, A.lastValue_))

visitFunctionCall(node, I) ==
  IF node.function.kind # "Identifier"
  THEN Throw(I, <<"Function calls with complex expressions not yet supported">>)
  ELSE LET functionName == node.function.name IN
    IF functionName \in BuiltinNames
    THEN LET r == visitArguments(node.arguments, 1, I, <<>>) IN
           IF ~Running(r.I) THEN r.I
           ELSE CallBuiltin(r.I, functionName, r.args)
    ELSE Throw(I, <<"Function '">> \o functionName \o <<"' is not defined">>)

\* Variant of visit(VariableDeclaration&) that binds the name in the root
\* environment instead of the current one.
visitVariableDeclaration_Root(node, I) ==
  LET V == IF node.initializer # Null THEN accept(node.initializer, I) ELSE I
      value == IF node.initializer # Null THEN V.lastValue_ ELSE IntV(0)
  IN IF ~Running(V) THEN V
     ELSE [V EXCEPT !.envs[RootEnv].variables = define(@, node.name, value)]

\* Variant of visit(VariableDeclaration&) that binds the name in the parent
\* of the current environment when there is one.
visitVariableDeclaration_Parent(node, I) ==
  LET V == IF node.initializer # Null THEN accept(node.initializer, I) ELSE I
      value == IF node.initializer # Null THEN V.lastValue_ ELSE IntV(0)
      target == IF V.envs[V.environment_].parent # 0
                THEN V.envs[V.environment_].parent
                ELSE V.environment_
  IN IF ~Running(V) THEN V
     ELSE [V EXCEPT !.envs[target].variables = define(@, node.name, value)]

visitVariableDeclaration(node, I) ==
  LET V == IF node.initializer # Null THEN accept(node.initializer, I) ELSE I
      value == IF node.initializer # Null THEN V.lastValue_ ELSE IntV(0)
  IN IF ~Running(V) THEN V
     ELSE [V EXCEPT !.envs[V.environment_].variables =
                      define(@, node.name, value)]

\* Variant of visitStatements that goes on with the next statement after a
\* statement failed.
visitStatements_Continuing(statements, i, I) ==
  IF i > Len(statements) THEN I
  ELSE LET S == accept(statements[i], I) IN
    IF S.fate # "ok" THEN S
    ELSE visitStatements(statements, i + 1, [S EXCEPT !.exc = <<>>])

\* for (auto& stmt : statements) stmt->accept(*this);
visitStatements(statements, i, I) ==
  IF i > Len(statements) THEN I
  ELSE LET S == accept(statements[i], I) IN
    IF ~Running(S) THEN S ELSE visitStatements(statements, i + 1, S)

visitBlock(node, I) ==
  LET saved == I.environment_
      alive == Len(I.envs)
      E == [I EXCEPT !.envs = Append(@, Environment(saved)),
                     !.environment_ = alive + 1,
                     !.trace = Append(@, [e |-> "enter", env |-> saved,
                                          envs |-> I.envs])]
      B == visitStatements(node.statements, 1, E)
  IN IF B.fate # "ok" THEN B
     ELSE IF B.exc # <<>> THEN BlockCatch(B, saved, alive)
     ELSE BlockExit(B, saved, alive)

\* Variant of visit(FunctionDefinition&) that also executes the body.
visitFunctionDefinition_Running(node, I) ==
  accept(node.body,
         [I EXCEPT !.cout = @ \o <<"Function '">> \o node.name
                              \o <<"' defined (not yet executable)", NL>>])

visitFunctionDefinition(node, I) ==
  [I EXCEPT !.cout = @ \o <<"Function '">> \o node.name
                       \o <<"' defined (not yet executable)", NL>>]

visitIfStatement(node, I) ==
  LET C == accept(node.condition, I) IN
    IF ~Running(C) THEN C
    ELSE IF isTruthy(C.lastValue_) THEN accept(node.then_branch, C)
    ELSE IF node.else_branch # Null THEN accept(node.else_branch, C)
    ELSE C

\* while (true) { condition; if falsy break; body }.  An iteration that
\* leaves the environments and std::cin as it found them repeats for ever.
visitWhileStatement(node, I) ==
  LET C == accept(node.condition, I) IN
    IF ~Running(C) THEN C
    ELSE IF ~isTruthy(C.lastValue_) THEN C
    ELSE LET B == accept(node.body, C) IN
      IF ~Running(B) THEN B
      ELSE IF B.envs = I.envs /\ B.environment_ = I.environment_ /\ B.cin = I.cin
      THEN [B EXCEPT !.fate = "hang"]
      ELSE visitWhileStatement(node, B)

\* node.accept(*this): the double dispatch; a null pointer is dereferenced.
accept(node, I) ==
  IF ~Running(I) THEN I
  ELSE IF node = Null THEN Crash(I)
  ELSE LET V == Visited(I, node) IN
    CASE node.kind = "IntegerLiteral" -> SetLast(V, IntV(node.ivalue))
      [] node.kind = "FloatLiteral" -> SetLast(V, FloatV(node.fvalue))
      [] node.kind = "StringLiteral" -> SetLast(V, StrV(node.svalue))
      [] node.kind = "BooleanLiteral" -> SetLast(V, BoolV(node.bvalue))
      [] node.kind = "Identifier" -> visitIdentifier(node, V)
      [] node.kind = "BinaryExpression" -> visitBinaryExpression(node, V)
      [] node.kind = "UnaryExpression" -> visitUnaryExpression(node, V)
      [] node.kind = "FunctionCall" -> visitFunctionCall(node, V)
      [] node.kind = "ArrayAccess" ->
           Throw(V, <<"Array access not yet implemented">>)
      [] node.kind = "MemberAccess" ->
           Throw(V, <<"Member access not yet implemented">>)
      [] node.kind = "ContextConditional" ->
           Throw(V, <<"Context conditionals not yet implemented">>)
      [] node.kind = "ExpressionStatement" -> accept(node.expression, V)
      [] node.kind = "VariableDeclaration" -> visitVariableDeclaration(node, V)
      [] node.kind = "Block" -> visitBlock(node, V)
      [] node.kind = "FunctionDefinition" -> visitFunctionDefinition(node, V)
      [] node.kind = "ReturnStatement" ->
           Throw(V, <<"Return statements not yet implemented">>)
      [] node.kind = "IfStatement" -> visitIfStatement(node, V)
      [] node.kind = "WhileStatement" -> visitWhileStatement(node, V)
      [] node.kind = "ForStatement" ->
           Throw(V, <<"For loops not yet implemented">>)
      [] node.kind = "Program" -> visitStatements(node.statements, 1, V)

\* Variant of execute that starts every call on a fresh interpreter.
execute_Fresh(I, program) ==
  accept(program, [InterpreterInit(I.cin) EXCEPT !.cout = I.cout])

\* Interpreter::execute: a call starts with nothing in flight.
execute(I, program) ==
  accept(program, [I EXCEPT !.exc = <<>>, !.trace = <<>>])

(***************************************************************************)
(* SpecLex: tokenize on every source over LexAlphabet up to MaxLen         *)
(* characters and on the sources of LexCorpus.                             *)
(***************************************************************************)
LexAlphabet == {"a", "1", ".", QUOTE, BSLASH, NL, " ", "/", "*"}

LexCorpus ==
  { <<"3",".","1","4">>,
    <<"7",".","x"," ","8","."," ","9">>,
    <<"l","e","t"," ","x"," ","="," ","4","2"," ","+"," ","3",".","1","4">>,
    <<"f","n"," ","c","a","p","s","u","l","e"," ","i","m","p","o","r","t"," ","w","i","t","h"," ","c","a","p","a","b","i","l","i","t","i","e","s">>,
    <<"@","p","a","r","a","l","l","e","l"," ","@","r","e","a","c","t","i","v","e">>,
    <<"@","f","o","o">>,
    <<"#","t","a","g",":","a","u","t","h"," ","#","t">>,
    <<"-",">"," ","=",">"," ",":",":"," ","+","="," ","-","="," ","=","="," ","!","="," ","<","="," ",">","=">>,
    <<QUOTE,"h","i",QUOTE," ",QUOTE,"a",BSLASH,"n","b",QUOTE>>,
    <<QUOTE,"a",BSLASH,"q","b",QUOTE," ","1">>,
    <<QUOTE,BSLASH,"n",BSLASH,"t",BSLASH,"r",BSLASH,BSLASH,BSLASH,QUOTE,QUOTE," ","x">>,
    <<QUOTE,"H","i","!",QUOTE," ",QUOTE,"w",BSLASH,"n","e",QUOTE>>,
    <<"0","0","7">>,
    <<"1",".",".","5">>,
    <<"3",".","1","4","0">>,
    <<"0",".","5",".">>,
    <<"9","2","2","3","3","7","2","0","3","6","8","5","4","7","7","5","8","0","7">>,
    <<"9","2","2","3","3","7","2","0","3","6","8","5","4","7","7","5","8","0","8">>,
    <<"9","9","9","9","9","9","9","9","9","9","9","9","9","9","9","9","9","9","9","9">>,
    <<QUOTE,BSLASH,"q",QUOTE," ","9","9","9","9","9","9","9","9","9","9","9","9","9","9","9","9","9","9","9","9">>,
    <<"t","r","u","e"," ","f","a","l","s","e">>,
    <<"l","e","t"," ","m","u","t"," ","x"," ","="," ","1",";">>,
    <<"l","e","t","s">>,
    <<"l","e","t","_","1"," ","x","l","e","t"," ","i","m","p","o","r","t","w","i","t","h"," ","f","n","2"," ","_","i","f">>,
    <<"a"," ","/","/"," ","c",NL,"b">>,
    <<"/","*"," ","a",NL,"b"," ","*","/"," ","c">>,
    <<QUOTE,"a",NL,"b",QUOTE," ","c">>,
    <<QUOTE,"a",BSLASH,NL,"b",QUOTE," ","c">>,
    <<"x"," ","$">>,
    <<"#"," ","1">>,
    <<"a","_","1"," ","_","b">>,
    <<"(",")","{","}","[","]",",",";","?","%","!","<",">",":">> }

LexSources ==
  UNION {[1..n -> LexAlphabet] : n \in 0..MaxLen} \cup LexCorpus

InitLex ==
  /\ source_ \in LexSources
  /\ lexer = LexerInit
  /\ tokens = <<>>
  /\ lexStatus = "loop"
  /\ parser = ParserInit
  /\ ast = Null
  /\ interpreter = InterpreterInit(<<>>)
  /\ errors = <<>>
  /\ result = "none"
  /\ calls = 0

LexStep ==
  /\ lexStatus = "loop"
  /\ LET t == tokenize_step(source_,
                 [lexer |-> lexer, tokens |-> tokens, status |-> lexStatus])
     IN /\ lexer' = t.lexer
        /\ tokens' = t.tokens
        /\ lexStatus' = t.status
  /\ UNCHANGED <<source_, compilerVars>>

NextLex == LexStep

SpecLex == InitLex /\ [][NextLex]_vars

(***************************************************************************)
(* Properties of the lexer, checked under SpecLex.                         *)
(***************************************************************************)
\* The token a step of tokenize's loop adds first, and where its text starts:
\* next_token skips whitespace and then scans the token.
TokenAdded == Len(tokens') > Len(tokens)

NewToken == tokens'[Len(tokens) + 1]

TokenStart == skip_whitespace(source_, lexer)

\* C5: the sequence tokenize returns has exactly one end-of-input token, in
\* last position, has no COMMENT token, and an ERROR token in it is directly
\* followed by the end-of-input token (so it is the only one).
C5_TokenStreamShape ==
  lexStatus = "returned" =>
    /\ tokens # <<>>
    /\ tokens[Len(tokens)].type = "EOF_TOKEN"
    /\ \A i \in 1..Len(tokens) - 1 : tokens[i].type # "EOF_TOKEN"
    /\ \A i \in 1..Len(tokens) : tokens[i].type # "COMMENT"
    /\ \A i \in 1..Len(tokens) :
         tokens[i].type = "ERROR" => i = Len(tokens) - 1

\* tokenize returned a sequence in which a token precedes an ERROR token.
C5_Witness ==
  /\ lexStatus = "returned"
  /\ Len(tokens) >= 3
  /\ tokens[Len(tokens) - 1].type = "ERROR"
  /\ tokens[Len(tokens)].type = "EOF_TOKEN"

\* C6: tokenize never throws; it always returns a token sequence.
C6_LexerNeverThrows == lexStatus # "threw"

\* C7: every token the lexer produces carries the line and column of the
\* first character of the source text it was built from.
C7_TokenPosition ==
  [][(TokenAdded /\ NewToken.type # "EOF_TOKEN") =>
       /\ NewToken.line = TokenStart.line
       /\ NewToken.column = TokenStart.column]_vars

\* C8: on a source lexed without diagnostics, the lexeme of every token is
\* exactly the source substring the token was built from.
C8_LexemeIsSourceText ==
  [][(TokenAdded /\ NewToken.type # "EOF_TOKEN" /\ lexer'.errors = <<>>
        /\ lexStatus' # "threw") =>
       NewToken.lexeme =
         SubSeq(source_, TokenStart.current + 1, lexer'.current)]_vars

(***************************************************************************)
(* Compiler::compile_string (part_001).  Options as in the tests:          *)
(* target_context = "test", so the AST is not printed.                     *)
(***************************************************************************)
\* pimpl->errors.push_back(prefix + error) for every error of a stage.
StageErrors(prefix, errs) ==
  [i \in 1..Len(errs) |-> [stage |-> prefix, error |-> errs[i]]]

\* std::cout << ... << std::endl
Cout(I, line) == [I EXCEPT !.cout = @ \o line \o <<NL>>]

\* compile_string once execute has ended (X): the catch of std::exception, or
\* "Execution completed" and true.
Executed(parsed, X) ==
  IF X.fate # "ok" THEN [parsed EXCEPT !.interpreter = X, !.result = X.fate]
  ELSE IF X.exc # <<>>
  THEN [parsed EXCEPT !.interpreter = X,
                      !.errors = <<[stage |-> "Runtime error: ",
                                    error |-> X.exc]>>]
  ELSE [parsed EXCEPT !.interpreter = Cout(X, <<"Execution completed">>),
                      !.result = "true"]

\* compile_string once parseProgram has returned (pr).
Parsed(unparsed, I2, pr) ==
  LET parsed == [unparsed EXCEPT !.parser = pr.p, !.ast = pr.node,
                                 !.interpreter = I2]
  IN IF pr.p.errors # <<>>
     THEN [parsed EXCEPT !.errors = StageErrors("Parse error: ", pr.p.errors)]
     ELSE Executed(parsed,
            execute(Cout(Cout(Cout(I2,
                      <<"Parsing completed (">>
                        \o NatToDigits(Len(pr.node.statements))
                        \o <<" statements)">>),
                      <<"Semantic analysis completed (stub)">>),
                      <<"Executing...">>),
                    pr.node))

\* compile_string once tokenize has ended (lx).
Lexed(ast0, I1, lx) ==
  LET unparsed == [lexer |-> lx.lexer, tokens |-> lx.tokens,
                   lexStatus |-> lx.status, parser |-> ParserInit,
                   ast |-> ast0, interpreter |-> I1, errors |-> <<>>,
                   result |-> "false"]
  IN IF lx.status = "threw" THEN [unparsed EXCEPT !.result = "threw"]
     ELSE IF lx.lexer.errors # <<>>
     THEN [unparsed EXCEPT
             !.errors = StageErrors("Lexer error: ", lx.lexer.errors)]
     ELSE Parsed(unparsed,
                 Cout(I1, <<"Lexical analysis completed (">>
                            \o NatToDigits(Len(lx.tokens)) \o <<" tokens)">>),
                 parseProgram(lx.tokens))

\* The call on a Compiler whose members are ast0 and I0: the lexer and the
\* parser it ran, the members after it and how it ended.
compile_string(ast0, I0, src) ==
  Lexed(ast0,
        Cout([I0 EXCEPT !.exc = <<>>, !.trace = <<>>],
             <<"Compiling source code...">>),
        tokenize(src))

\* Compiler::get_errors.
get_errors == errors

\* The lines std::cin holds when the Compiler is constructed.
CinLines == { <<>>, << <<"h","i">> >> }

\* Compiler::Compiler: the members of Impl after construction.
Init ==
  /\ source_ = <<>>
  /\ lexer = LexerInit
  /\ tokens = <<>>
  /\ lexStatus = "returned"
  /\ parser = ParserInit
  /\ ast = Null
  /\ interpreter \in {InterpreterInit(cin) : cin \in CinLines}
  /\ errors = <<>>
  /\ result = "none"
  /\ calls = 0

\* A call of compile_string(src) that comes to an end: a call that hangs or
\* crashes the process is the last one.
Returned(r) ==
  /\ lexer' = r.lexer
  /\ tokens' = r.tokens
  /\ lexStatus' = r.lexStatus
  /\ parser' = r.parser
  /\ ast' = r.ast
  /\ interpreter' = r.interpreter
  /\ errors' = r.errors
  /\ result' = r.result

CompileString(src) ==
  /\ result \notin {"hang", "crash"}
  /\ source_' = src
  /\ Returned(compile_string(ast, interpreter, src))
  /\ calls' = calls + 1


(***************************************************************************)
(* Spec: up to MaxCalls calls of compile_string on one Compiler, each on a *)
(* source of CompileCorpus.                                                *)
(***************************************************************************)
MaxCalls == 2

CompileCorpus ==
  {
    \* { x = 2; } print(x);
    <<"{"," ","x"," ","="," ","2",";"," ","}"," ","p","r","i","n","t","(","x",")",";">>,
    \* print(1, z);
    <<"p","r","i","n","t","(","1",","," ","z",")",";">>,
    \* print(print(1), z);
    <<"p","r","i","n","t","(","p","r","i","n","t","(","1",")",","," ","z",")",";">>,
    \* { let x; print(x); } print(x);
    <<"{"," ","l","e","t"," ","x",";"," ","p","r","i","n","t","(","x",")",";"," ","}"," ","p","r","i","n","t","(","x",")",";">>,
    \* let a = 7; z;
    <<"l","e","t"," ","a"," ","="," ","7",";"," ","z",";">>,
    \* print(a);
    <<"p","r","i","n","t","(","a",")",";">>,
    \* let x = 42\nlet y = 3.14\nlet m = "Hi"\n
    <<"l","e","t"," ","x"," ","="," ","4","2",NL,"l","e","t"," ","y"," ","="," ","3",".","1","4",NL,"l","e","t"," ","m"," ","="," ",QUOTE,"H","i",QUOTE,NL>>,
    \* let x = 1;
    <<"l","e","t"," ","x"," ","="," ","1",";">>,
    \* let y = "a";
    <<"l","e","t"," ","y"," ","="," ",QUOTE,"a",QUOTE,";">>,
    \* print(x);
    <<"p","r","i","n","t","(","x",")",";">>,
    \* x = 2;
    <<"x"," ","="," ","2",";">>,
    \* y; print(1);
    <<"y",";"," ","p","r","i","n","t","(","1",")",";">>,
    \* { let x = 2; print(x); } print(x);
    <<"{"," ","l","e","t"," ","x"," ","="," ","2",";"," ","p","r","i","n","t","(","x",")",";"," ","}"," ","p","r","i","n","t","(","x",")",";">>,
    \* { let x = 2; y; print(x); } print(3);
    <<"{"," ","l","e","t"," ","x"," ","="," ","2",";"," ","y",";"," ","p","r","i","n","t","(","x",")",";"," ","}"," ","p","r","i","n","t","(","3",")",";">>,
    \* { { z; } print(4); } print(5);
    <<"{"," ","{"," ","z",";"," ","}"," ","p","r","i","n","t","(","4",")",";"," ","}"," ","p","r","i","n","t","(","5",")",";">>,
    \* if x { y; } else { print(0); }
    <<"i","f"," ","x"," ","{"," ","y",";"," ","}"," ","e","l","s","e"," ","{"," ","p","r","i","n","t","(","0",")",";"," ","}">>,
    \* while x < 1 { print(x); z; }
    <<"w","h","i","l","e"," ","x"," ","<"," ","1"," ","{"," ","p","r","i","n","t","(","x",")",";"," ","z",";"," ","}">>,
    \* while 0 { }
    <<"w","h","i","l","e"," ","0"," ","{"," ","}">>,
    \* print(input());
    <<"p","r","i","n","t","(","i","n","p","u","t","(",")",")",";">>,
    \* print(1 / 0, 2);
    <<"p","r","i","n","t","(","1"," ","/"," ","0",","," ","2",")",";">>,
    \* let x = true;
    <<"l","e","t"," ","x"," ","="," ","t","r","u","e",";">>,
    \* let mut x = 1;
    <<"l","e","t"," ","m","u","t"," ","x"," ","="," ","1",";">>,
    \* let = 1;
    <<"l","e","t"," ","="," ","1",";">>,
    \* x $
    <<"x"," ","$">>,
    \* "\q" 99999999999999999999
    <<QUOTE,BSLASH,"q",QUOTE," ","9","9","9","9","9","9","9","9","9","9","9","9","9","9","9","9","9","9","9","9">>,
    \* 99999999999999999999
    <<"9","9","9","9","9","9","9","9","9","9","9","9","9","9","9","9","9","9","9","9">>,
    \* let x = 1\nlet y = 2
    <<"l","e","t"," ","x"," ","="," ","1",NL,"l","e","t"," ","y"," ","="," ","2">>,
    \* fn f() { } f();
    <<"f","n"," ","f","(",")"," ","{"," ","}"," ","f","(",")",";">> }

Next == \E src \in CompileCorpus : calls < MaxCalls /\ CompileString(src)

Spec == Init /\ [][Next]_vars

(***************************************************************************)
(* SpecParse: one call of compile_string on a fresh Compiler, on a source  *)
(* of ParseCorpus, on up to MaxWords words of ParseWords separated by      *)
(* single spaces, or on a chain of two binary operators.                   *)
(***************************************************************************)
MaxWords == 3

ParseWords ==
  {
    \* let
    <<"l","e","t">>,
    \* mut
    <<"m","u","t">>,
    \* x
    <<"x">>,
    \* =
    <<"=">>,
    \* 1
    <<"1">>,
    \* ;
    <<";">>,
    \* true
    <<"t","r","u","e">>,
    \* {
    <<"{">>,
    \* }
    <<"}">> }

RECURSIVE Join(_)
Join(words) ==
  IF Len(words) = 1 THEN words[1]
  ELSE words[1] \o <<" ">> \o Join(Tail(words))

ParseCorpus ==
  {
    \* if 1 { 2; } else 3;
    <<"i","f"," ","1"," ","{"," ","2",";"," ","}"," ","e","l","s","e"," ","3",";">>,
    \* if 0 2;
    <<"i","f"," ","0"," ","2",";">>,
    \* while 0 { f(1, -2); }
    <<"w","h","i","l","e"," ","0"," ","{"," ","f","(","1",","," ","-","2",")",";"," ","}">>,
    \* { let x; { } }
    <<"{"," ","l","e","t"," ","x",";"," ","{"," ","}"," ","}">>,
    \* return;
    <<"r","e","t","u","r","n",";">>,
    \* return 1;
    <<"r","e","t","u","r","n"," ","1",";">>,
    \* fn f() { x; }
    <<"f","n"," ","f","(",")"," ","{"," ","x",";"," ","}">>,
    \* for i in 1..2 { }
    <<"f","o","r"," ","i"," ","i","n"," ","1",".",".","2"," ","{"," ","}">>,
    \* f();
    <<"f","(",")",";">>,
    \* x if c == == "d";
    <<"x"," ","i","f"," ","c"," ","=","="," ","=","="," ",QUOTE,"d",QUOTE,";">>,
    \* x if c == "d";
    <<"x"," ","i","f"," ","c"," ","=","="," ",QUOTE,"d",QUOTE,";">>,
    \* x if c == == 1;
    <<"x"," ","i","f"," ","c"," ","=","="," ","=","="," ","1",";">>,
    \* x if c == == == "d";
    <<"x"," ","i","f"," ","c"," ","=","="," ","=","="," ","=","="," ",QUOTE,"d",QUOTE,";">>,
    \* x if c = = "d";
    <<"x"," ","i","f"," ","c"," ","="," ","="," ",QUOTE,"d",QUOTE,";">>,
    \* x if 1 == == "d";
    <<"x"," ","i","f"," ","1"," ","=","="," ","=","="," ",QUOTE,"d",QUOTE,";">>,
    \* 1 if c == "d";
    <<"1"," ","i","f"," ","c"," ","=","="," ",QUOTE,"d",QUOTE,";">>,
    \* }
    <<"}">>,
    \* = ;
    <<"="," ",";">>,
    \* fn
    <<"f","n">>,
    \* if
    <<"i","f">>,
    \* while x
    <<"w","h","i","l","e"," ","x">>,
    \* for
    <<"f","o","r">>,
    \* return
    <<"r","e","t","u","r","n">>,
    \* { = }
    <<"{"," ","="," ","}">>,
    \* x.
    <<"x",".">>,
    \* x[
    <<"x","[">>,
    \* f(
    <<"f","(">>,
    \* (
    <<"(">>,
    \* let x: = 1
    <<"l","e","t"," ","x",":"," ","="," ","1">>,
    \* , x
    <<","," ","x">>,
    \* ;;
    <<";",";">>,
    \* let mut x = 1;
    <<"l","e","t"," ","m","u","t"," ","x"," ","="," ","1",";">>,
    \* let mut x: int = 1;
    <<"l","e","t"," ","m","u","t"," ","x",":"," ","i","n","t"," ","="," ","1",";">>,
    \* let mut x;
    <<"l","e","t"," ","m","u","t"," ","x",";">>,
    \* let x: int = 1;
    <<"l","e","t"," ","x",":"," ","i","n","t"," ","="," ","1",";">>,
    \* let x: int;
    <<"l","e","t"," ","x",":"," ","i","n","t",";">>,
    \* false;
    <<"f","a","l","s","e",";">>,
    \* x = true;
    <<"x"," ","="," ","t","r","u","e",";">>,
    \* let x = false;
    <<"l","e","t"," ","x"," ","="," ","f","a","l","s","e",";">>,
    \* print(true, false);
    <<"p","r","i","n","t","(","t","r","u","e",","," ","f","a","l","s","e",")",";">>,
    \* if true { } else { }
    <<"i","f"," ","t","r","u","e"," ","{"," ","}"," ","e","l","s","e"," ","{"," ","}">>,
    \* while false { }
    <<"w","h","i","l","e"," ","f","a","l","s","e"," ","{"," ","}">>,
    \* (true);
    <<"(","t","r","u","e",")",";">>,
    \* !true;
    <<"!","t","r","u","e",";">>,
    \* true == false;
    <<"t","r","u","e"," ","=","="," ","f","a","l","s","e",";">>,
    \* let x = 1\nlet y = 2
    <<"l","e","t"," ","x"," ","="," ","1",NL,"l","e","t"," ","y"," ","="," ","2">>,
    \* let x = 1.5;
    <<"l","e","t"," ","x"," ","="," ","1",".","5",";">>,
    \* let x = "a";
    <<"l","e","t"," ","x"," ","="," ",QUOTE,"a",QUOTE,";">> }

\* The binary operators of the expression grammar with the level of the
\* routine that parses them, parseAssignment (0) to parseFactor (6).
ChainOperators ==
  { [text |-> <<"=">>, op |-> "Assign", level |-> 0],
    [text |-> <<"o","r">>, op |-> "Or", level |-> 1],
    [text |-> <<"a","n","d">>, op |-> "And", level |-> 2],
    [text |-> <<"=","=">>, op |-> "Eq", level |-> 3],
    [text |-> <<"!","=">>, op |-> "Ne", level |-> 3],
    [text |-> <<"<">>, op |-> "Lt", level |-> 4],
    [text |-> <<"<","=">>, op |-> "Le", level |-> 4],
    [text |-> <<">">>, op |-> "Gt", level |-> 4],
    [text |-> <<">","=">>, op |-> "Ge", level |-> 4],
    [text |-> <<"+">>, op |-> "Add", level |-> 5],
    [text |-> <<"-">>, op |-> "Sub", level |-> 5],
    [text |-> <<"*">>, op |-> "Mul", level |-> 6],
    [text |-> <<"/">>, op |-> "Div", level |-> 6],
    [text |-> <<"%">>, op |-> "Mod", level |-> 6] }

\* a o1 b o2 c;
ChainSource(o1, o2) ==
  <<"a"," ">> \o o1.text \o <<" ","b"," ">> \o o2.text \o <<" ","c",";">>

ChainSources ==
  { ChainSource(o1, o2) : o1 \in ChainOperators, o2 \in ChainOperators }
  \cup
  {
    \* -a * b;
    <<"-","a"," ","*"," ","b",";">>,
    \* -f(a);
    <<"-","f","(","a",")",";">> }

ParseSources ==
  {Join(ws) : ws \in UNION {[1..n -> ParseWords] : n \in 1..MaxWords}}
    \cup ParseCorpus \cup ChainSources

NextParse == \E src \in ParseSources : calls = 0 /\ CompileString(src)

SpecParse == Init /\ [][NextParse]_vars

(***************************************************************************)
(* SpecEval: one call of compile_string on a fresh Compiler, on a short    *)
(* program: a binary operation on two operands of EvalOperands, a call of  *)
(* substring on literal arguments, or a source of EvalCorpus.              *)
(***************************************************************************)
EvalOperands ==
  {
    \* 1
    <<"1">>,
    \* 0
    <<"0">>,
    \* 7
    <<"7">>,
    \* 1.5
    <<"1",".","5">>,
    \* 0.0
    <<"0",".","0">>,
    \* "a"
    <<QUOTE,"a",QUOTE>>,
    \* ""
    <<QUOTE,QUOTE>>,
    \* (1 < 2)
    <<"(","1"," ","<"," ","2",")">>,
    \* (2 < 1)
    <<"(","2"," ","<"," ","1",")">> }

EvalOperators ==
  { <<"+">>, <<"-">>, <<"*">>, <<"/">>, <<"a","n","d">>, <<"o","r">> }

BinarySources ==
  { l \o <<" ">> \o op \o <<" ">> \o r \o <<";">> :
      l \in EvalOperands, op \in EvalOperators, r \in EvalOperands }

\* substring(s, start) and substring(s, start, len) on literal arguments.
SubstringStrings == { <<QUOTE,QUOTE>>, <<QUOTE,"a","b","c",QUOTE>> }

SubstringStarts == { <<"-","1">>, <<"0">>, <<"1">>, <<"2">>, <<"3">>, <<"4">> }

SubstringLengths == { <<"-","1">>, <<"0">>, <<"1">>, <<"2">>, <<"5">> }

SubstringSources ==
  { <<"s","u","b","s","t","r","i","n","g","(">> \o s \o <<","," ">> \o st
      \o <<")",";">> : s \in SubstringStrings, st \in SubstringStarts }
  \cup
  { <<"s","u","b","s","t","r","i","n","g","(">> \o s \o <<","," ">> \o st
      \o <<","," ">> \o n \o <<")",";">> :
      s \in SubstringStrings, st \in SubstringStarts, n \in SubstringLengths }

EvalCorpus ==
  {
    \* 7 % 2;
    <<"7"," ","%"," ","2",";">>,
    \* +1;
    <<"+","1",";">>,
    \* z % 1;
    <<"z"," ","%"," ","1",";">>,
    \* 1 % z;
    <<"1"," ","%"," ","z",";">>,
    \* print(1) % 2;
    <<"p","r","i","n","t","(","1",")"," ","%"," ","2",";">>,
    \* +print(1);
    <<"+","p","r","i","n","t","(","1",")",";">>,
    \* + +1;
    <<"+"," ","+","1",";">>,
    \* -+1;
    <<"-","+","1",";">>,
    \* 1 % 2 % 3;
    <<"1"," ","%"," ","2"," ","%"," ","3",";">>,
    \* let x = 1 % 2;
    <<"l","e","t"," ","x"," ","="," ","1"," ","%"," ","2",";">>,
    \* "a" % 1.5;
    <<QUOTE,"a",QUOTE," ","%"," ","1",".","5",";">>,
    \* +"a";
    <<"+",QUOTE,"a",QUOTE,";">>,
    \* +z;
    <<"+","z",";">>,
    \* !+0;
    <<"!","+","0",";">>,
    \* substring("abc");
    <<"s","u","b","s","t","r","i","n","g","(",QUOTE,"a","b","c",QUOTE,")",";">>,
    \* substring(1, 1);
    <<"s","u","b","s","t","r","i","n","g","(","1",","," ","1",")",";">>,
    \* substring("abc", "x");
    <<"s","u","b","s","t","r","i","n","g","(",QUOTE,"a","b","c",QUOTE,","," ",QUOTE,"x",QUOTE,")",";">>,
    \* substring("abc", 1, "x");
    <<"s","u","b","s","t","r","i","n","g","(",QUOTE,"a","b","c",QUOTE,","," ","1",","," ",QUOTE,"x",QUOTE,")",";">>,
    \* substring("abc", 5, "x");
    <<"s","u","b","s","t","r","i","n","g","(",QUOTE,"a","b","c",QUOTE,","," ","5",","," ",QUOTE,"x",QUOTE,")",";">>,
    \* substring("abc", 1, 2, 3);
    <<"s","u","b","s","t","r","i","n","g","(",QUOTE,"a","b","c",QUOTE,","," ","1",","," ","2",","," ","3",")",";">>,
    \* substring("hello", 10);
    <<"s","u","b","s","t","r","i","n","g","(",QUOTE,"h","e","l","l","o",QUOTE,","," ","1","0",")",";">>,
    \* substring("hello", 1, 3);
    <<"s","u","b","s","t","r","i","n","g","(",QUOTE,"h","e","l","l","o",QUOTE,","," ","1",","," ","3",")",";">>,
    \* fn f() { z; let x = 1; }
    <<"f","n"," ","f","(",")"," ","{"," ","z",";"," ","l","e","t"," ","x"," ","="," ","1",";"," ","}">>,
    \* fn f() { } f();
    <<"f","n"," ","f","(",")"," ","{"," ","}"," ","f","(",")",";">>,
    \* g(1);
    <<"g","(","1",")",";">>,
    \* 0 and z;
    <<"0"," ","a","n","d"," ","z",";">>,
    \* 1 or z;
    <<"1"," ","o","r"," ","z",";">>,
    \* y and z;
    <<"y"," ","a","n","d"," ","z",";">>,
    \* 0 and print(1);
    <<"0"," ","a","n","d"," ","p","r","i","n","t","(","1",")",";">>,
    \* print(1) or print(2);
    <<"p","r","i","n","t","(","1",")"," ","o","r"," ","p","r","i","n","t","(","2",")",";">>,
    \* 1;
    <<"1",";">> }

EvalSources == BinarySources \cup SubstringSources \cup EvalCorpus

NextEval == \E src \in EvalSources : calls = 0 /\ CompileString(src)

SpecEval == Init /\ [][NextEval]_vars


(***************************************************************************)
(* Properties of the interpreter and of compile_string, checked under      *)
(* Spec.                                                                   *)
(***************************************************************************)
\* The last call came back to its caller (it did not hang or crash).
CallEnded == calls > 0 /\ result \in {"true", "false", "threw"}

RECURSIVE BlocksRestore(_, _, _)
\* Every "leave" event of tr from position i on carries the environment of
\* the "enter" event it closes; open holds the environments of the blocks
\* entered and not yet left.
BlocksRestore(tr, i, open) ==
  IF i > Len(tr) THEN TRUE
  ELSE IF tr[i].e = "enter"
  THEN BlocksRestore(tr, i + 1, Append(open, tr[i].env))
  ELSE IF tr[i].e = "leave"
  THEN /\ open # <<>>
       /\ tr[i].env = open[Len(open)]
       /\ BlocksRestore(tr, i + 1, SubSeq(open, 1, Len(open) - 1))
  ELSE BlocksRestore(tr, i + 1, open)

\* C1: the environment current right after a Block, whether its body
\* completed or a child failed, is the one that was current right before it;
\* so after every execute call the current environment is the root.
C1_BlockRestoresEnvironment ==
  CallEnded =>
    /\ BlocksRestore(interpreter.trace, 1, <<>>)
    /\ interpreter.environment_ = RootEnv

\* A call failed inside a block nested in a block, and both were left.
C1_Witness ==
  /\ CallEnded
  /\ interpreter.exc # <<>>
  /\ \E i, j, k, l \in 1..Len(interpreter.trace) :
       /\ i < j /\ j < k /\ k < l
       /\ interpreter.trace[i].e = "enter"
       /\ interpreter.trace[j].e = "enter"
       /\ interpreter.trace[k].e = "throw"
       /\ interpreter.trace[l].e = "leave"

IsAssignment(a) ==
  /\ a.kind = "Program"
  /\ Len(a.statements) = 1
  /\ a.statements[1].kind = "ExpressionStatement"
  /\ a.statements[1].expression.kind = "BinaryExpression"
  /\ a.statements[1].expression.op = "Assign"
  /\ a.statements[1].expression.right.kind = "IntegerLiteral"

\* C3: evaluating `name = e` replaces the value of the innermost binding of
\* name and fails only when no environment up to the root binds name.  Here:
\* a call whose program is `name = <integer>;`, made when the root binds
\* name, succeeds and leaves name bound to that integer.
C3_AssignmentReplacesBinding ==
  [][(/\ calls' = calls + 1
      /\ lexStatus' = "returned"
      /\ lexer'.errors = <<>>
      /\ parser'.errors = <<>>
      /\ IsAssignment(ast')
      /\ get(interpreter.envs, RootEnv,
             ast'.statements[1].expression.left.name).found)
     => /\ result' = "true"
        /\ get(interpreter'.envs, RootEnv,
               ast'.statements[1].expression.left.name).value
             = IntV(ast'.statements[1].expression.right.ivalue)]_vars

\* C4: a call for whose source the lexer or the parser recorded a diagnostic
\* returns false with get_errors() non-empty and executes nothing (no visit,
\* no binding created); a call returns true only when lexing, parsing and
\* execution all finished without error.
C4_DiagnosticsFailTheCall ==
  [][calls' = calls + 1 =>
       /\ (lexer'.errors # <<>> \/ parser'.errors # <<>>) =>
            /\ result' = "false"
            /\ errors' # <<>>
            /\ interpreter'.trace = <<>>
            /\ interpreter'.envs = interpreter.envs
       /\ result' = "true" =>
            /\ lexStatus' = "returned"
            /\ lexer'.errors = <<>>
            /\ parser'.errors = <<>>
            /\ interpreter'.exc = <<>>]_vars

(***************************************************************************)
(* Properties of the lexer and parser together, checked under SpecParse.   *)
(***************************************************************************)
\* C9: `true` and `false` are lexed as boolean-literal tokens, and parsing
\* the statement `<boolean> ;` yields the boolean literal node of that value
\* and records no diagnostic.
C9_BooleanLiteralParses ==
  (/\ calls = 1
   /\ source_ \in { <<"t","r","u","e"," ",";">>, <<"f","a","l","s","e",";">> })
  => /\ lexStatus = "returned"
     /\ Len(tokens) = 3
     /\ tokens[1].type = "BOOLEAN"
     /\ tokens[1].literal = BoolLit(source_[1] = "t")
     /\ parser.errors = <<>>
     /\ ast = Program(<<ExpressionStatement(BooleanLiteral(source_[1] = "t"))>>)

MutDeclarations ==
  {
    \* let mut x = 1;
    <<"l","e","t"," ","m","u","t"," ","x"," ","="," ","1",";">>,
    \* let mut x: int = 1;
    <<"l","e","t"," ","m","u","t"," ","x",":"," ","i","n","t"," ","="," ","1",";">>,
    \* let mut x;
    <<"l","e","t"," ","m","u","t"," ","x",";">> }

PlainDeclarations ==
  {
    \* let x: int = 1;
    <<"l","e","t"," ","x",":"," ","i","n","t"," ","="," ","1",";">>,
    \* let x: int;
    <<"l","e","t"," ","x",":"," ","i","n","t",";">>,
    \* let x ;
    <<"l","e","t"," ","x"," ",";">> }

\* C10: `let mut <name> [: type] [= expr];` yields one variable declaration
\* named <name> with the mutability flag set and no diagnostic; without
\* `mut` the flag is clear.
C10_MutDeclaration ==
  (calls = 1 /\ source_ \in MutDeclarations \cup PlainDeclarations)
  => /\ parser.errors = <<>>
     /\ Len(ast.statements) = 1
     /\ ast.statements[1].kind = "VariableDeclaration"
     /\ ast.statements[1].name = <<"x">>
     /\ ast.statements[1].is_mutable = (source_ \in MutDeclarations)


NewlineDeclarations ==
  {
    \* let x = 1\nlet y = 2
    <<"l","e","t"," ","x"," ","="," ","1",NL,"l","e","t"," ","y"," ","="," ","2">>,
    \* let x = 42\nlet y = 3.14\nlet m = "Hi"\n
    <<"l","e","t"," ","x"," ","="," ","4","2",NL,"l","e","t"," ","y"," ","="," ","3",".","1","4",NL,"l","e","t"," ","m"," ","="," ",QUOTE,"H","i",QUOTE,NL>> }

\* C11: compile_string returns true, with no errors, on a program made of
\* `let` declarations with literal initializers that are separated only by
\* newlines, with no semicolons.
C11_NewlineSeparatedDeclarations ==
  (calls > 0 /\ source_ \in NewlineDeclarations)
  => result = "true" /\ errors = <<>>

\* The bindings of the root environment of interpreter state I.
RootVariables(I) == I.envs[RootEnv].variables

\* seq ends with suffix.
EndsWith(seq, suffix) ==
  /\ Len(seq) >= Len(suffix)
  /\ SubSeq(seq, Len(seq) - Len(suffix) + 1, Len(seq)) = suffix

\* The call visited node.
WasVisited(I, node) ==
  \E k \in 1..Len(I.trace) : I.trace[k] = [e |-> "visit", node |-> node]

\* The call visited a declaration of name.
Redeclared(I, name) ==
  \E k \in 1..Len(I.trace) :
    /\ I.trace[k].e = "visit"
    /\ I.trace[k].node.kind = "VariableDeclaration"
    /\ I.trace[k].node.name = name

\* The program is the single statement `print(name);`.
IsPrintOfName(a) ==
  /\ a.kind = "Program"
  /\ Len(a.statements) = 1
  /\ a.statements[1].kind = "ExpressionStatement"
  /\ a.statements[1].expression.kind = "FunctionCall"
  /\ a.statements[1].expression.function = Identifier(<<"p","r","i","n","t">>)
  /\ Len(a.statements[1].expression.arguments) = 1
  /\ a.statements[1].expression.arguments[1].kind = "Identifier"

\* C12: bindings persist across compile_string calls on one Compiler.  For
\* every call that executes: (1) a top-level `let name = <integer>;` that the
\* call executed leaves name bound to that integer in the root environment,
\* also when a later statement of the call failed; (2) every binding of the
\* root environment made by earlier calls is still there with its value,
\* unless this call declared the name again; (3) a call `print(name);` made
\* when an earlier call bound name prints that value and succeeds.
C12_BindingsPersist ==
  [][(calls' = calls + 1 /\ result' \in {"true", "false"}
      /\ lexer'.errors = <<>> /\ parser'.errors = <<>>)
     => /\ \A i \in 1..Len(ast'.statements) :
             (/\ ast'.statements[i].kind = "VariableDeclaration"
              /\ ast'.statements[i].initializer.kind = "IntegerLiteral"
              /\ WasVisited(interpreter', ast'.statements[i])
              /\ \A j \in (i + 1)..Len(ast'.statements) :
                   ast'.statements[j].kind = "VariableDeclaration"
                     => ast'.statements[j].name # ast'.statements[i].name)
             => /\ ast'.statements[i].name \in DOMAIN RootVariables(interpreter')
                /\ RootVariables(interpreter')[ast'.statements[i].name]
                     = IntV(ast'.statements[i].initializer.ivalue)
        /\ \A n \in DOMAIN RootVariables(interpreter) :
             /\ n \in DOMAIN RootVariables(interpreter')
             /\ \/ RootVariables(interpreter')[n] = RootVariables(interpreter)[n]
                \/ Redeclared(interpreter', n)
        /\ (/\ IsPrintOfName(ast')
            /\ ast'.statements[1].expression.arguments[1].name
                 \in DOMAIN RootVariables(interpreter))
           => /\ result' = "true"
              /\ EndsWith(interpreter'.cout,
                   valueToString(RootVariables(interpreter)
                     [ast'.statements[1].expression.arguments[1].name])
                   \o <<NL, "Execution completed", NL>>)]_vars

\* The second call, `print(a);`, succeeded and printed 7: a was bound by a
\* first call `let a = 7; z;`, the only source that declares a, which failed
\* at z.
C12_Witness ==
  /\ calls = 2
  /\ source_ = <<"p","r","i","n","t","(","a",")",";">>
  /\ result = "true"
  /\ RootVariables(interpreter) = define(NoVariables, <<"a">>, IntV(7))
  /\ EndsWith(interpreter.cout, <<"7", NL, "Execution completed", NL>>)

\* What the last call wrote after it announced the execution: the program's
\* own output and the closing line.
ExecutionOutput(I) ==
  LET starts == { k \in 1..Len(I.cout) : I.cout[k] = "Executing..." }
      last == CHOOSE k \in starts : \A j \in starts : j <= k
  IN IF starts = {} THEN <<>> ELSE SubSeq(I.cout, last + 2, Len(I.cout))

ShadowingBlock == <<"{"," ","l","e","t"," ","x"," ","=", " ","2",";"," ","p","r","i","n","t","(","x",")",";"," ","}"," ","p","r","i","n","t","(","x",")",";">>

DefaultingBlock == <<"{"," ","l","e","t"," ","x",";"," ","p","r","i","n","t","(","x",")",";"," ","}"," ","p","r","i","n","t","(","x",")",";">>

\* C13: a declaration binds its name in the environment that is current when
\* it executes, and nowhere else.  For every call that executes: (1) the root
\* environment gets or changes a binding only for a name that a top-level
\* declaration of the call declared, so a declaration inside a block leaves
\* the outer environments alone; (2) when x is bound, the call
\* `{ let x = 2; print(x); } print(x);` succeeds without a redeclaration
\* failure, prints 2 inside the block and the outer value after it, and
\* leaves the root environment as it was; (3) the same with `let x;`, which
\* prints 0 inside the block.
C13_DeclarationBindsCurrentEnvironment ==
  [][(calls' = calls + 1 /\ result' \in {"true", "false"}
      /\ lexer'.errors = <<>> /\ parser'.errors = <<>>)
     => /\ \A n \in DOMAIN RootVariables(interpreter') :
             (\/ n \notin DOMAIN RootVariables(interpreter)
              \/ RootVariables(interpreter')[n] # RootVariables(interpreter)[n])
             => \E i \in 1..Len(ast'.statements) :
                  /\ ast'.statements[i].kind = "VariableDeclaration"
                  /\ ast'.statements[i].name = n
                  /\ WasVisited(interpreter', ast'.statements[i])
        /\ (source_' \in {ShadowingBlock, DefaultingBlock}
            /\ <<"x">> \in DOMAIN RootVariables(interpreter))
           => /\ result' = "true"
              /\ RootVariables(interpreter') = RootVariables(interpreter)
              /\ ExecutionOutput(interpreter')
                   = <<(IF source_' = ShadowingBlock THEN "2" ELSE "0"), NL>>
                     \o valueToString(RootVariables(interpreter)[<<"x">>])
                     \o <<NL, "Execution completed", NL>>]_vars

\* After `let x = 1;`, the call `{ let x; print(x); } print(x);` printed 0
\* and then 1, and x is still 1.
C13_Witness ==
  /\ calls = 2
  /\ source_ = DefaultingBlock
  /\ result = "true"
  /\ RootVariables(interpreter) = define(NoVariables, <<"x">>, IntV(1))
  /\ ExecutionOutput(interpreter)
       = <<"0", NL, "1", NL, "Execution completed", NL>>

\* The program is a single statement that calls print.
IsPrintCall(a) ==
  /\ a.kind = "Program"
  /\ Len(a.statements) = 1
  /\ a.statements[1].kind = "ExpressionStatement"
  /\ a.statements[1].expression.kind = "FunctionCall"
  /\ a.statements[1].expression.function = Identifier(<<"p","r","i","n","t">>)

RECURSIVE CallFree(_)
\* The expression holds no call, so its evaluation writes nothing itself.
CallFree(e) ==
  CASE e.kind \in {"IntegerLiteral", "FloatLiteral", "StringLiteral",
                   "BooleanLiteral", "Identifier"} -> TRUE
    [] e.kind = "BinaryExpression" -> CallFree(e.left) /\ CallFree(e.right)
    [] e.kind = "UnaryExpression" -> CallFree(e.operand)
    [] OTHER -> FALSE

PrintOfPrintThenZ == <<"p","r","i","n","t","(","p","r","i","n","t","(","1",")",","," ","z",")",";">>

\* C14: print writes nothing unless all its arguments were evaluated.  For
\* every call whose program is one print statement: (1) when the call failed
\* and no argument holds a call, the execution wrote nothing; (2) when the
\* first argument that is not a literal is a name bound nowhere, the call
\* fails with "Undefined variable '<name>'"; (3) `print(print(1), z);` writes
\* the inner print's line only, nothing of the outer print.
C14_PrintWritesNothingOnFailure ==
  [][(calls' = calls + 1 /\ result' \in {"true", "false"}
      /\ lexer'.errors = <<>> /\ parser'.errors = <<>> /\ IsPrintCall(ast'))
     => LET arguments == ast'.statements[1].expression.arguments IN
        /\ (result' = "false" /\ \A i \in 1..Len(arguments) : CallFree(arguments[i]))
           => ExecutionOutput(interpreter') = <<>>
        /\ \A i \in 1..Len(arguments) :
             (/\ arguments[i].kind = "Identifier"
              /\ arguments[i].name \notin DOMAIN RootVariables(interpreter)
              /\ \A j \in 1..(i - 1) : arguments[j].kind = "IntegerLiteral")
             => /\ result' = "false"
                /\ errors' = <<[stage |-> "Runtime error: ",
                                error |-> <<"Undefined variable '">>
                                          \o arguments[i].name \o <<"'">>]>>
        /\ source_' = PrintOfPrintThenZ
           => result' = "false" /\ ExecutionOutput(interpreter') = <<"1", NL>>]_vars

\* `print(1, z);` failed at z and the execution wrote nothing, not even the 1.
C14_Witness ==
  /\ calls > 0
  /\ source_ = <<"p","r","i","n","t","(","1",","," ","z",")",";">>
  /\ result = "false"
  /\ errors = <<[stage |-> "Runtime error: ",
                 error |-> <<"Undefined variable '", "z", "'">>]>>
  /\ ExecutionOutput(interpreter) = <<>>

(***************************************************************************)
(* Properties of the evaluation of one expression statement, checked under *)
(* SpecEval.                                                               *)
(***************************************************************************)
\* The program that was executed is one expression statement.
IsExpressionProgram(a) ==
  /\ a.kind = "Program"
  /\ Len(a.statements) = 1
  /\ a.statements[1].kind = "ExpressionStatement"

\* The runtime type of the value of an operand of EvalOperands, read off the
\* syntax tree: a literal's own type, and bool for a comparison.
OperandType(e) ==
  CASE e.kind = "IntegerLiteral" -> "int"
    [] e.kind = "FloatLiteral" -> "float"
    [] e.kind = "StringLiteral" -> "string"
    [] e.kind = "BinaryExpression" /\ e.op \in {"Lt", "Gt", "Le", "Ge"} -> "bool"
    [] OTHER -> "other"

\* The types on which the arithmetic operator op is defined.
ArithmeticTypes(op) ==
  IF op = "Add" THEN {"int", "float", "string"} ELSE {"int", "float"}

\* The invalid-operands message of op.
InvalidOperands(op) ==
  CASE op = "Add" -> <<"Invalid operands for addition">>
    [] op = "Sub" -> <<"Invalid operands for subtraction">>
    [] op = "Mul" -> <<"Invalid operands for multiplication">>
    [] op = "Div" -> <<"Invalid operands for division">>

\* The call failed at run time with this message.
RuntimeErrorIs(message) ==
  /\ result = "false"
  /\ errors = <<[stage |-> "Runtime error: ", error |-> message]>>

\* C15: binary + - * / succeed only on two operands of the same runtime type,
\* int-int, float-float, and string-string for + only.  On every other
\* pairing, int with float included, the call fails with "Invalid operands
\* for <operation>" and no value is produced: lastValue_ is still the value
\* of the right operand.  On int-int the value is the integer result, and +
\* on two strings is their concatenation.
C15_ArithmeticNeedsSameType ==
  (calls > 0 /\ IsExpressionProgram(ast)
   /\ ast.statements[1].expression.kind = "BinaryExpression"
   /\ ast.statements[1].expression.op \in {"Add", "Sub", "Mul", "Div"})
  => LET e == ast.statements[1].expression
         lt == OperandType(e.left)
         rt == OperandType(e.right)
     IN /\ lt # "other" /\ rt # "other"
        /\ result = "true" => lt = rt /\ lt \in ArithmeticTypes(e.op)
        /\ (lt # rt \/ lt \notin ArithmeticTypes(e.op))
           => /\ RuntimeErrorIs(InvalidOperands(e.op))
              /\ interpreter.lastValue_.t = rt
              /\ rt = "int" => interpreter.lastValue_ = IntV(e.right.ivalue)
              /\ rt = "string" => interpreter.lastValue_ = StrV(e.right.svalue)
        /\ (lt = "int" /\ rt = "int" /\ result = "true")
           => interpreter.lastValue_ =
                IntV(CASE e.op = "Add" -> e.left.ivalue + e.right.ivalue
                       [] e.op = "Sub" -> e.left.ivalue - e.right.ivalue
                       [] e.op = "Mul" -> e.left.ivalue * e.right.ivalue
                       [] e.op = "Div" -> e.left.ivalue \div e.right.ivalue)
        /\ (lt = "string" /\ rt = "string" /\ e.op = "Add")
           => /\ result = "true"
              /\ interpreter.lastValue_ = StrV(e.left.svalue \o e.right.svalue)

\* `1 + 1.5;` failed: int with float is not promoted.
C15_Witness ==
  /\ calls > 0
  /\ source_ = <<"1"," ","+"," ","1",".","5",";">>
  /\ RuntimeErrorIs(<<"Invalid operands for addition">>)
  /\ interpreter.lastValue_.t = "float"

\* The trace holds a throw after position k.
ThrewAfter(tr, k) == \E m \in (k + 1)..Len(tr) : tr[m].e = "throw"

\* C16: `and` and `or` never short-circuit.  Whenever a binary and/or
\* expression is visited, its left operand is visited next, and its right
\* operand is visited after that unless a failure ended the evaluation
\* before.  So `0 and z;` and `1 or z;` fail at z, `y and z;` fails at y,
\* `0 and print(1);` prints 1, and `print(1) or print(2);` prints 1 and
\* then 2.
C16_NoShortCircuit ==
  (calls > 0 /\ result \in {"true", "false"}
   /\ lexer.errors = <<>> /\ parser.errors = <<>>)
  => LET tr == interpreter.trace IN
     /\ \A k \in 1..Len(tr) :
          (/\ tr[k].e = "visit"
           /\ tr[k].node.kind = "BinaryExpression"
           /\ tr[k].node.op \in {"And", "Or"})
          => /\ k < Len(tr)
             /\ tr[k + 1] = [e |-> "visit", node |-> tr[k].node.left]
             /\ \/ \E j \in (k + 2)..Len(tr) :
                     /\ tr[j] = [e |-> "visit", node |-> tr[k].node.right]
                     /\ ~ThrewAfter(SubSeq(tr, 1, j - 1), k)
                \/ /\ ThrewAfter(tr, k)
                   /\ result = "false"
     /\ source_ \in { <<"0"," ","a","n","d"," ","z",";">>,
                      <<"1"," ","o","r"," ","z",";">> }
        => RuntimeErrorIs(<<"Undefined variable '", "z", "'">>)
     /\ source_ = <<"y"," ","a","n","d"," ","z",";">>
        => RuntimeErrorIs(<<"Undefined variable '", "y", "'">>)
     /\ source_ = <<"0"," ","a","n","d"," ","p","r","i","n","t","(","1",")",";">>
        => /\ result = "true"
           /\ ExecutionOutput(interpreter) = <<"1", NL, "Execution completed", NL>>
           /\ interpreter.lastValue_ = BoolV(FALSE)
     /\ source_ = <<"p","r","i","n","t","(","1",")"," ","o","r"," ","p","r","i","n","t","(","2",")",";">>
        => /\ result = "true"
           /\ ExecutionOutput(interpreter)
                = <<"1", NL, "2", NL, "Execution completed", NL>>

\* `1 or z;` failed at z although the left operand is truthy.
C16_Witness ==
  /\ calls > 0
  /\ source_ = <<"1"," ","o","r"," ","z",";">>
  /\ RuntimeErrorIs(<<"Undefined variable '", "z", "'">>)
  /\ \E k \in 1..Len(interpreter.trace) :
       interpreter.trace[k] = [e |-> "visit", node |-> Identifier(<<"z">>)]

IsSubstringCall(a) ==
  /\ IsExpressionProgram(a)
  /\ a.statements[1].expression.kind = "FunctionCall"
  /\ a.statements[1].expression.function
       = Identifier(<<"s","u","b","s","t","r","i","n","g">>)

\* An integer literal, or the negation of one.
IsIntegerArgument(e) ==
  \/ e.kind = "IntegerLiteral"
  \/ e.kind = "UnaryExpression" /\ e.op = "Neg" /\ e.operand.kind = "IntegerLiteral"

IntegerArgument(e) ==
  IF e.kind = "IntegerLiteral" THEN e.ivalue ELSE 0 - e.operand.ivalue

\* The characters of s from index start (counted from 0) up to but excluding
\* index end.
Characters(s, start, end) == [i \in 1..(end - start) |-> s[start + i]]

Minimum(a, b) == IF a < b THEN a ELSE b

\* C18: substring(s, start) and substring(s, start, len) on a string and
\* integers never fail.  The value is the empty string when start < 0, start
\* >= length of s or len < 0; otherwise the characters of s from start up to
\* but excluding min(start + len, length of s), or to the end of s without
\* len.
C18_SubstringValue ==
  (calls > 0 /\ lexer.errors = <<>> /\ parser.errors = <<>> /\ IsSubstringCall(ast))
  => LET arguments == ast.statements[1].expression.arguments IN
     (/\ Len(arguments) \in {2, 3}
      /\ arguments[1].kind = "StringLiteral"
      /\ \A i \in 2..Len(arguments) : IsIntegerArgument(arguments[i]))
     => LET s == arguments[1].svalue
            start == IntegerArgument(arguments[2])
            end == IF Len(arguments) = 2 THEN Len(s)
                   ELSE Minimum(start + IntegerArgument(arguments[3]), Len(s))
            empty == \/ start < 0
                     \/ start >= Len(s)
                     \/ Len(arguments) = 3 /\ IntegerArgument(arguments[3]) < 0
        IN /\ result = "true"
           /\ interpreter.lastValue_
                = StrV(IF empty THEN <<>> ELSE Characters(s, start, end))

\* `substring("hello", 1, 3);` returned "ell".
C18_Witness ==
  /\ calls > 0
  /\ source_ = <<"s","u","b","s","t","r","i","n","g","(",QUOTE,"h","e","l","l","o",QUOTE,","," ","1",","," ","3",")",";">>
  /\ result = "true"
  /\ interpreter.lastValue_ = StrV(<<"e","l","l">>)

\* C19: substring enforces its argument types on every call: a call with
\* fewer than two or more than three arguments, with a first argument that is
\* not a string, or with a second or third argument that is not an integer
\* fails, whatever the values of the other arguments.
C19_SubstringChecksTypes ==
  (calls > 0 /\ lexer.errors = <<>> /\ parser.errors = <<>> /\ IsSubstringCall(ast))
  => LET arguments == ast.statements[1].expression.arguments IN
     (\/ Len(arguments) < 2
      \/ Len(arguments) > 3
      \/ OperandType(arguments[1]) \in {"int", "float", "bool"}
      \/ \E i \in 2..Len(arguments) :
           i <= 3 /\ OperandType(arguments[i]) \in {"float", "string", "bool"})
     => result = "false"

(***************************************************************************)
(* Properties of the expression grammar, checked under SpecParse.          *)
(***************************************************************************)
\* The tree of `a o1 b o2 c` that the precedence chain prescribes: the
\* operator of the tighter level binds first, one level groups to the left,
\* assignment groups to the right.
ChainTree(o1, o2) ==
  LET a == Identifier(<<"a">>)
      b == Identifier(<<"b">>)
      c == Identifier(<<"c">>)
  IN IF o1.level > o2.level \/ (o1.level = o2.level /\ o1.level # 0)
     THEN BinaryExpression(BinaryExpression(a, o1.op, b), o2.op, c)
     ELSE BinaryExpression(a, o1.op, BinaryExpression(b, o2.op, c))

\* C20: expression parsing follows the chain assignment < or < and <
\* equality < comparison < additive < multiplicative < unary < postfix.  For
\* every two binary operators, `a o1 b o2 c;` parses without a diagnostic
\* into the tree of the chain (except `a o1 b = c`, whose target is no
\* name): a - b - c is (a - b) - c, a + b * c is a + (b * c), a = b = c is
\* a = (b = c).  A unary operator binds tighter than * and looser than a
\* call: -a * b is (-a) * b and -f(a) is -(f(a)).
C20_PrecedenceChain ==
  calls > 0 =>
    /\ \A o1 \in ChainOperators, o2 \in ChainOperators :
         (source_ = ChainSource(o1, o2) /\ (o2.level = 0 => o1.level = 0))
         => /\ lexer.errors = <<>>
            /\ parser.errors = <<>>
            /\ ast = Program(<<ExpressionStatement(ChainTree(o1, o2))>>)
    /\ source_ = <<"-","a"," ","*"," ","b",";">>
       => /\ parser.errors = <<>>
          /\ ast = Program(<<ExpressionStatement(
                     BinaryExpression(UnaryExpression("Neg", Identifier(<<"a">>)),
                                      "Mul", Identifier(<<"b">>)))>>)
    /\ source_ = <<"-","f","(","a",")",";">>
       => /\ parser.errors = <<>>
          /\ ast = Program(<<ExpressionStatement(
                     UnaryExpression("Neg",
                       FunctionCall(Identifier(<<"f">>), <<Identifier(<<"a">>)>>)))>>)

\* `a - b - c;` was parsed into (a - b) - c.
C20_Witness ==
  /\ calls > 0
  /\ source_ = <<"a"," ","-"," ","b"," ","-"," ","c",";">>
  /\ parser.errors = <<>>
  /\ ast = Program(<<ExpressionStatement(
             BinaryExpression(
               BinaryExpression(Identifier(<<"a">>), "Sub", Identifier(<<"b">>)),
               "Sub", Identifier(<<"c">>)))>>)

(***************************************************************************)
(* Further properties of the lexer, checked under SpecLex.                 *)
(***************************************************************************)
\* A letter, a digit or an underscore.
IsWordCharacter(c) == c \in Letters \/ c \in Digits \/ c = "_"

\* The end of the longest run of word characters of src that starts right
\* after position start.
WordEnd(src, start) ==
  CHOOSE j \in start..Len(src) :
    /\ \A k \in (start + 1)..j : IsWordCharacter(src[k])
    /\ j = Len(src) \/ ~IsWordCharacter(src[j + 1])

\* The keywords the tests of the lexer name.
TestedKeywords ==
  { [text |-> <<"l","e","t">>, type |-> "LET"],
    [text |-> <<"f","n">>, type |-> "FN"],
    [text |-> <<"c","a","p","s","u","l","e">>, type |-> "CAPSULE"],
    [text |-> <<"i","m","p","o","r","t">>, type |-> "IMPORT"],
    [text |-> <<"w","i","t","h">>, type |-> "WITH"],
    [text |-> <<"c","a","p","a","b","i","l","i","t","i","e","s">>,
     type |-> "CAPABILITIES"] }

\* C21: identifier scanning is maximal.  A token that starts at a letter or
\* an underscore ends where the longest run of letters, digits and
\* underscores ends; it is a keyword token exactly when the whole run is an
\* entry of the keyword table (let, fn, capsule, import, with, capabilities
\* are), and otherwise one IDENTIFIER whose lexeme is the run.
C21_MaximalIdentifier ==
  [][(/\ TokenAdded
      /\ TokenStart.current < Len(source_)
      /\ source_[TokenStart.current + 1] \in Letters \cup {"_"})
     => LET start == TokenStart.current
            end == WordEnd(source_, start)
            text == SubSeq(source_, start + 1, end)
        IN /\ lexer'.current = end
           /\ \A kw \in keywords_ : kw.text = text => NewToken.type = kw.type
           /\ \A kw \in TestedKeywords : kw.text = text => NewToken.type = kw.type
           /\ (\A kw \in keywords_ : kw.text # text)
              => /\ NewToken.type = "IDENTIFIER"
                 /\ NewToken.lexeme = text]_vars

\* `let_1 xlet importwith fn2 _if` was lexed into five IDENTIFIER tokens.
C21_Witness ==
  /\ lexStatus = "returned"
  /\ source_ = <<"l","e","t","_","1"," ","x","l","e","t"," ","i","m","p","o","r","t","w","i","t","h"," ","f","n","2"," ","_","i","f">>
  /\ Len(tokens) = 6
  /\ \A i \in 1..5 : tokens[i].type = "IDENTIFIER"
  /\ tokens[3].lexeme = <<"i","m","p","o","r","t","w","i","t","h">>

RECURSIVE WellFormedContent(_)
\* c can be the content of a terminated string literal: it has no quote
\* outside an escape and does not end inside an escape.
WellFormedContent(c) ==
  IF c = <<>> THEN TRUE
  ELSE IF c[1] = QUOTE THEN FALSE
  ELSE IF c[1] = BSLASH
  THEN Len(c) >= 2 /\ WellFormedContent(SubSeq(c, 3, Len(c)))
  ELSE WellFormedContent(Tail(c))

\* The character an escape denotes; the escaped character itself when the
\* escape is not a recognized one.
Denoted(escaped) ==
  CASE escaped = "n" -> "\n"
    [] escaped = "t" -> "\t"
    [] escaped = "r" -> "\r"
    [] OTHER -> escaped

RECURSIVE Unescaped(_)
\* The content c with every escape replaced by the character it denotes.
Unescaped(c) ==
  IF c = <<>> THEN <<>>
  ELSE IF c[1] = BSLASH
  THEN <<Denoted(c[2])>> \o Unescaped(SubSeq(c, 3, Len(c)))
  ELSE <<c[1]>> \o Unescaped(Tail(c))

RECURSIVE UnknownEscapes(_)
\* The escaped characters of the unrecognized escapes of c, in order.
UnknownEscapes(c) ==
  IF c = <<>> THEN <<>>
  ELSE IF c[1] = BSLASH
  THEN (IF c[2] \in {"n", "t", "r", BSLASH, QUOTE} THEN <<>> ELSE <<c[2]>>)
       \o UnknownEscapes(SubSeq(c, 3, Len(c)))
  ELSE UnknownEscapes(Tail(c))

\* C22: a terminated double-quoted literal gives a STRING token whose payload
\* is the content with \n, \t, \r, \\ and \" replaced by the characters they
\* denote.  Each unrecognized escape adds one diagnostic and contributes the
\* escaped character itself; the token is still STRING, not ERROR, and
\* tokenization goes on after the closing quote.
C22_StringPayload ==
  [][(/\ lexStatus = "loop"
      /\ lexStatus' # lexStatus \/ lexer' # lexer \/ tokens' # tokens
      /\ TokenStart.current < Len(source_)
      /\ source_[TokenStart.current + 1] = QUOTE)
     => \A end \in (TokenStart.current + 2)..Len(source_) :
          LET content == SubSeq(source_, TokenStart.current + 2, end - 1) IN
          (source_[end] = QUOTE /\ WellFormedContent(content))
          => /\ TokenAdded
             /\ NewToken.type = "STRING"
             /\ NewToken.literal = StrLit(Unescaped(content))
             /\ lexer'.current = end
             /\ Len(lexer'.errors)
                  = Len(lexer.errors) + Len(UnknownEscapes(content))
             /\ \A i \in 1..Len(UnknownEscapes(content)) :
                  lexer'.errors[Len(lexer.errors) + i].message
                    = <<"Unknown escape sequence: \\", UnknownEscapes(content)[i]>>
             /\ lexStatus' = "loop"]_vars

\* `"a\qb" 1` was lexed into STRING (payload aqb), INTEGER and the end token,
\* with one diagnostic.
C22_Witness ==
  /\ lexStatus = "returned"
  /\ source_ = <<QUOTE,"a",BSLASH,"q","b",QUOTE," ","1">>
  /\ Len(tokens) = 3
  /\ tokens[1].type = "STRING"
  /\ tokens[1].literal = StrLit(<<"a","q","b">>)
  /\ tokens[2].type = "INTEGER"
  /\ Len(lexer.errors) = 1

(***************************************************************************)
(* Further properties of the parser, checked under SpecParse.              *)
(***************************************************************************)
\* A parser with its cursor at token k.
ParserAt(k) == [ParserInit EXCEPT !.current = k]

\* One outcome of parseDeclaration in the loop of parseProgram: a null
\* statement makes the loop call synchronize.
ProgramIterationNext(toks, d) ==
  IF d.node # Null THEN d.p ELSE synchronize(toks, d.p)

\* The parser after the newlines at the start of an iteration of the loop of
\* parseProgram are skipped: the loop ends at the end of input, and parses a
\* declaration otherwise.
ProgramIterationBody(toks, q) ==
  IF isAtEnd(toks, q) THEN q
  ELSE ProgramIterationNext(toks, Call("parseDeclaration", toks, q))

\* The parser after one iteration of the loop of parseProgram started at p.
ProgramIteration(toks, p) == ProgramIterationBody(toks, skip_newlines(toks, p))

\* The same for the loop of parseBlockStatement.
BlockIterationBody(toks, q) ==
  IF check(toks, q, "RIGHT_BRACE") \/ isAtEnd(toks, q) THEN q
  ELSE Call("parseDeclaration", toks, q).p

BlockIteration(toks, p) == BlockIterationBody(toks, skip_newlines(toks, p))

\* C23: every iteration of the statement loop of parseProgram that starts
\* before the end of input moves the cursor forward by at least one token,
\* from every cursor position of every token sequence, also at a token that
\* cannot start an expression; so does every iteration of the loop of
\* parseBlockStatement, which runs only while the cursor is neither at `}`
\* nor at the end of input, unless skipping newlines brought it there.
C23_LoopsAdvance ==
  (calls > 0 /\ lexStatus = "returned")
  => \A k \in 0..(Len(tokens) - 1) :
       ~isAtEnd(tokens, ParserAt(k))
       => /\ ProgramIteration(tokens, ParserAt(k)).current > k
          /\ ~check(tokens, ParserAt(k), "RIGHT_BRACE")
             => \/ BlockIteration(tokens, ParserAt(k)).current > k
                \/ check(tokens, BlockIteration(tokens, ParserAt(k)), "RIGHT_BRACE")
                \/ isAtEnd(tokens, BlockIteration(tokens, ParserAt(k)))

\* `}` alone: the parser reported "Expect expression" at the brace and ended
\* with its cursor behind it, at the end token.
C23_Witness ==
  /\ calls > 0
  /\ source_ = <<"}">>
  /\ Len(tokens) = 2
  /\ parser.errors # <<>>
  /\ parser.errors[1].message = "Expect expression"
  /\ parser.current = 1
  /\ isAtEnd(tokens, parser)

\* The kinds consume is tried with: every kind in the token sequence and `;`.
ConsumeKinds(toks) == {toks[i].type : i \in 1..Len(toks)} \cup {"SEMICOLON"}

\* C24: a failed consume(kind) leaves the cursor where it was, appends exactly
\* one diagnostic and returns the token at the cursor; a successful one moves
\* the cursor forward by exactly one token, appends no diagnostic (and
\* returns the token it stepped over).  Stated for every cursor position of
\* every token sequence and every kind.
C24_ConsumeFrame ==
  (calls > 0 /\ lexStatus = "returned")
  => \A k \in 0..(Len(tokens) - 1), kind \in ConsumeKinds(tokens) :
       LET p == [parser EXCEPT !.current = k]
           r == consume(tokens, p, kind, "Expect token")
       IN IF tokens[k + 1].type = kind /\ kind # "EOF_TOKEN"
          THEN /\ r.p.current = k + 1
               /\ r.p.errors = p.errors
               /\ r.tok = tokens[k + 1]
          ELSE /\ r.p.current = k
               /\ Len(r.p.errors) = Len(p.errors) + 1
               /\ SubSeq(r.p.errors, 1, Len(p.errors)) = p.errors
               /\ r.tok = tokens[k + 1]

\* ------------------------------------------------------------------
\* Context conditionals (parser.cpp 246-267, 313-331)

\* The token kinds at positions i .. i + Len(kinds) - 1.
KindsAt(toks, i, kinds) ==
  /\ i + Len(kinds) - 1 <= Len(toks)
  /\ \A j \in 1..Len(kinds) : toks[i + j - 1].type = kinds[j]

ContextConditionalKinds == <<"IF", "IDENTIFIER", "EQUAL", "EQUAL", "STRING">>

SingleEqualKinds == <<"IF", "IDENTIFIER", "EQUAL", "STRING">>

\* The program is one expression statement holding a context conditional.
IsContextConditionalProgram(a) ==
  /\ a.kind = "Program"
  /\ Len(a.statements) = 1
  /\ a.statements[1].kind = "ExpressionStatement"
  /\ a.statements[1].expression.kind = "ContextConditional"

T_C25Single ==
  /\ calls > 0 /\ Len(tokens) >= 2 /\ tokens[2].type = "IF"
  /\ KindsAt(tokens, 2, SingleEqualKinds)
  /\ Len(parser.errors) = 1
  /\ IsContextConditionalProgram(ast)

\* ------------------------------------------------------------------
\* Line and column bookkeeping (lexer.cpp 152-155, 178-182, 219-269)

\* The positions of the newline characters among the first n of src.
NewlinesIn(src, n) == {i \in 1..n : src[i] = NL}

\* The position of the last newline among the first n characters, 0 if none.
LastNewline(src, n) ==
  IF NewlinesIn(src, n) = {} THEN 0
  ELSE CHOOSE i \in NewlinesIn(src, n) : \A j \in NewlinesIn(src, n) : j <= i

\* A newline stands directly after a backslash among the first n characters.
EscapedNewline(src, n) ==
  \E i \in 2..n : src[i] = NL /\ src[i - 1] = BSLASH

\* C26: between any two tokens the line counter is 1 plus the number of
\* newlines consumed so far, and the column is 1 plus the number of
\* characters consumed since the last newline (it is reset to 1 right
\* after each newline), wherever the newline stood.
C26_LineColumn ==
  /\ lexer.line = 1 + Cardinality(NewlinesIn(source_, lexer.current))
  /\ lexer.column = 1 + lexer.current - LastNewline(source_, lexer.current)

\* The same bookkeeping for sources without a newline after a backslash.
T_C26Rest ==
  ~EscapedNewline(source_, lexer.current) => C26_LineColumn

\* Newlines at top level, in a block comment and in a string were counted.
T_C26Counted ==
  /\ lexStatus = "returned"
  /\ lexer.line = 2
  /\ \E i \in 1..Len(tokens) : tokens[i].type \in {"STRING", "COMMENT"} /\ tokens[i].line = 2

\* ------------------------------------------------------------------
\* The dot of a numeric literal (lexer.cpp 271-296)

\* The end of the run of digits of src that starts right after position
\* start.
DigitsEnd(src, start) ==
  CHOOSE j \in start..Len(src) :
    /\ \A k \in (start + 1)..j : src[k] \in Digits
    /\ j = Len(src) \/ src[j + 1] \notin Digits

\* The character of src after position i, NUL beyond its end.
CharacterAfter(src, i) == IF i < Len(src) THEN src[i + 1] ELSE NUL

\* C27: a numeric literal takes a `.` only when a digit follows the dot,
\* and is then one FLOAT token reaching to the end of the digits after the
\* dot; otherwise it is an INTEGER token that ends before the dot, and the
\* dot is scanned next as a DOT token.  `1..5` lexes as INTEGER DOT DOT
\* INTEGER and `3.14` as one FLOAT.
C27_NumberDot ==
  [][(/\ TokenAdded
      /\ TokenStart.current < Len(source_)
      /\ source_[TokenStart.current + 1] \in Digits)
     => LET start == TokenStart.current
            whole == DigitsEnd(source_, start)
            dotted == /\ CharacterAfter(source_, whole) = "."
                      /\ CharacterAfter(source_, whole + 1) \in Digits
        IN IF dotted
           THEN /\ NewToken.type = "FLOAT"
                /\ lexer'.current = DigitsEnd(source_, whole + 1)
           ELSE /\ NewToken.type = "INTEGER"
                /\ lexer'.current = whole
                /\ CharacterAfter(source_, whole) = "."
                     => next_token(source_, lexer').tok.type = "DOT"]_vars

\* `1..5` was lexed as INTEGER DOT DOT INTEGER.
C27_Witness ==
  /\ lexStatus = "returned"
  /\ source_ = <<"1", ".", ".", "5">>
  /\ [i \in 1..Len(tokens) |-> tokens[i].type]
       = <<"INTEGER", "DOT", "DOT", "INTEGER", "EOF_TOKEN">>

\* `3.14` was lexed as one FLOAT.
T_C27Float ==
  /\ lexStatus = "returned"
  /\ source_ = <<"3", ".", "1", "4">>
  /\ [i \in 1..Len(tokens) |-> tokens[i].type] = <<"FLOAT", "EOF_TOKEN">>

\* ------------------------------------------------------------------
\* Null children (parser.cpp 269-310, 472-476; interpreter.h 366-368)

RECURSIVE NoNullDereferenced(_)
\* No null child stands in the tree of node where the interpreter
\* dereferences without a test: the expression of an expression statement,
\* the operands of binary and unary expressions, call arguments, the
\* condition and then branch of an if, the condition and body of a while,
\* the statements of a block and of the program.
NoNullDereferenced(node) ==
  CASE node.kind \in {"Program", "Block"} ->
         \A i \in 1..Len(node.statements) :
           /\ node.statements[i] # Null
           /\ NoNullDereferenced(node.statements[i])
    [] node.kind = "ExpressionStatement" ->
         node.expression # Null /\ NoNullDereferenced(node.expression)
    [] node.kind = "BinaryExpression" ->
         /\ node.left # Null /\ NoNullDereferenced(node.left)
         /\ node.right # Null /\ NoNullDereferenced(node.right)
    [] node.kind = "UnaryExpression" ->
         node.operand # Null /\ NoNullDereferenced(node.operand)
    [] node.kind = "FunctionCall" ->
         /\ NoNullDereferenced(node.function)
         /\ \A i \in 1..Len(node.arguments) :
              /\ node.arguments[i] # Null
              /\ NoNullDereferenced(node.arguments[i])
    [] node.kind = "IfStatement" ->
         /\ node.condition # Null /\ NoNullDereferenced(node.condition)
         /\ node.then_branch # Null /\ NoNullDereferenced(node.then_branch)
         /\ NoNullDereferenced(node.else_branch)
    [] node.kind = "WhileStatement" ->
         /\ node.condition # Null /\ NoNullDereferenced(node.condition)
         /\ node.body # Null /\ NoNullDereferenced(node.body)
    [] node.kind = "VariableDeclaration" -> NoNullDereferenced(node.initializer)
    [] node.kind = "FunctionDefinition" -> NoNullDereferenced(node.body)
    [] node.kind = "ReturnStatement" -> NoNullDereferenced(node.value)
    [] node.kind = "ForStatement" ->
         /\ NoNullDereferenced(node.start)
         /\ NoNullDereferenced(node.end)
         /\ NoNullDereferenced(node.body)
    [] node.kind = "ArrayAccess" ->
         NoNullDereferenced(node.array) /\ NoNullDereferenced(node.index)
    [] node.kind = "MemberAccess" -> NoNullDereferenced(node.object)
    [] node.kind = "ContextConditional" -> NoNullDereferenced(node.expression)
    [] OTHER -> TRUE

RECURSIVE HasKind(_, _)
\* A node of the given kind stands in the statements of the program or of a
\* block or branch in it.
HasKind(node, kind) ==
  \/ node.kind = kind
  \/ /\ node.kind \in {"Program", "Block"}
     /\ \E i \in 1..Len(node.statements) : HasKind(node.statements[i], kind)
  \/ /\ node.kind = "IfStatement"
     /\ HasKind(node.then_branch, kind) \/ HasKind(node.else_branch, kind)
  \/ node.kind = "WhileStatement" /\ HasKind(node.body, kind)
  \/ node.kind = "ExpressionStatement" /\ HasKind(node.expression, kind)

\* C28: when parseProgram finishes without a diagnostic, no null child
\* stands where the interpreter dereferences without a test, and the
\* execution that follows does not dereference a null pointer.
C28_NoNullWithoutDiagnostic ==
  (calls > 0 /\ lexStatus = "returned" /\ lexer.errors = <<>>
     /\ parser.errors = <<>>)
  => /\ ast.kind = "Program"
     /\ NoNullDereferenced(ast)
     /\ interpreter.fate # "crash"
     /\ result # "crash"

\* `while 0 { f(1, -2); }` was parsed without a diagnostic: a while with a
\* condition, a block body, a call with arguments and a unary operand.
C28_Witness ==
  /\ calls > 0
  /\ parser.errors = <<>>
  /\ ast.kind = "Program"
  /\ Len(ast.statements) = 1
  /\ ast.statements[1].kind = "WhileStatement"
  /\ ast.statements[1].body.kind = "Block"
  /\ HasKind(ast.statements[1].body, "FunctionCall")
  /\ NoNullDereferenced(ast)

\* A program with diagnostics whose tree holds a null expression.
T_C28NullWithDiagnostic ==
  /\ calls > 0 /\ parser.errors # <<>> /\ ast.kind = "Program"
  /\ ~NoNullDereferenced(ast)

\* An if statement with both branches was parsed without a diagnostic.
T_C28If ==
  /\ calls > 0 /\ parser.errors = <<>> /\ ast.kind = "Program"
  /\ Len(ast.statements) = 1
  /\ ast.statements[1].kind = "IfStatement"
  /\ ast.statements[1].else_branch # Null

\* ------------------------------------------------------------------
\* The frame of a block (interpreter.h 383-398, 370-381)

RECURSIVE BlocksKeepFrame(_, _, _)
\* Every "leave" event of tr from position i on finds the environments that
\* were alive when its block was entered (the one current on entry and all
\* its ancestors among them) with the names and values they had then; open
\* holds the "enter" events of the blocks entered and not yet left.
BlocksKeepFrame(tr, i, open) ==
  IF i > Len(tr) THEN TRUE
  ELSE IF tr[i].e = "enter"
  THEN BlocksKeepFrame(tr, i + 1, Append(open, tr[i]))
  ELSE IF tr[i].e = "leave"
  THEN /\ open # <<>>
       /\ tr[i].envs = open[Len(open)].envs
       /\ BlocksKeepFrame(tr, i + 1, SubSeq(open, 1, Len(open) - 1))
  ELSE BlocksKeepFrame(tr, i + 1, open)

T_C29Failed ==
  /\ CallEnded
  /\ interpreter.exc # <<>>
  /\ \E i, j, k, l \in 1..Len(interpreter.trace) :
       /\ i < j /\ j < k /\ k < l
       /\ interpreter.trace[i].e = "enter"
       /\ interpreter.trace[j].e = "visit"
       /\ interpreter.trace[j].node.kind = "VariableDeclaration"
       /\ interpreter.trace[k].e = "throw"
       /\ interpreter.trace[l].e = "leave"

\* With x bound to 1, `{ x = 2; } print(x);` failed in the block on the
\* assignment and left x as it was.
T_C29Assignment ==
  /\ calls = 2
  /\ result = "false"
  /\ interpreter.exc = <<"Unsupported binary operator">>
  /\ \E i \in 1..Len(interpreter.trace) : interpreter.trace[i].e = "leave"
  /\ RootVariables(interpreter) = define(NoVariables, <<"x">>, IntV(1))

\* ------------------------------------------------------------------
\* Operators without an implementation (interpreter.h 265-266, 270-292;
\* parser.cpp 224-244)

\* node is a binary `%` expression or a unary `+` expression.
IsUnsupportedOperation(node) ==
  \/ node.kind = "BinaryExpression" /\ node.op = "Mod"
  \/ node.kind = "UnaryExpression" /\ node.op = "Plus"

UnsupportedMessage(node) ==
  IF node.kind = "BinaryExpression" THEN <<"Unsupported binary operator">>
  ELSE <<"Unsupported unary operator">>

Operands(node) ==
  IF node.kind = "BinaryExpression" THEN <<node.left, node.right>>
  ELSE <<node.operand>>

RECURSIVE CannotFail(_)
\* The evaluation of e succeeds whatever the state: a literal, `!` or
\* and/or over such expressions, or a call of print on such arguments.
CannotFail(e) ==
  CASE e.kind \in {"IntegerLiteral", "FloatLiteral", "StringLiteral"} -> TRUE
    [] e.kind = "UnaryExpression" -> e.op = "Not" /\ CannotFail(e.operand)
    [] e.kind = "BinaryExpression" ->
         e.op \in {"And", "Or"} /\ CannotFail(e.left) /\ CannotFail(e.right)
    [] e.kind = "FunctionCall" ->
         /\ e.function = Identifier(<<"p","r","i","n","t">>)
         /\ \A i \in 1..Len(e.arguments) : CannotFail(e.arguments[i])
    [] OTHER -> FALSE

OperandKinds == {"INTEGER", "FLOAT", "STRING", "IDENTIFIER"}

T_C30Plus ==
  /\ calls > 0
  /\ result = "false"
  /\ IsExpressionProgram(ast)
  /\ ast.statements[1].expression = UnaryExpression("Plus", IntegerLiteral(1))
  /\ interpreter.exc = <<"Unsupported unary operator">>

\* `z % 1;` failed on its operand.
T_C30Operand ==
  /\ calls > 0
  /\ result = "false"
  /\ IsExpressionProgram(ast)
  /\ ast.statements[1].expression.kind = "BinaryExpression"
  /\ ast.statements[1].expression.op = "Mod"
  /\ interpreter.exc = <<"Undefined variable '", "z", "'">>

====
